---- MODULE Spec2Model ----
(***************************************************************************)
(* A model of the UST facility lookup (src/app.py): one query is resolved  *)
(* to a facility, the detail tables are joined to it, and one block is     *)
(* assembled per active tank.                                              *)
(*                                                                         *)
(* Text is a sequence of one-character strings, so that str(), strip(),    *)
(* lower(), re.sub(r"\D", ...) and title() are computed character by       *)
(* character.  A cell value is an int, a float (integer part n and one     *)
(* decimal digit d), a str or NaN, as pandas hands them to the code.       *)
(***************************************************************************)
EXTENDS Integers, Sequences, FiniteSets, TLC

----------------------------------------------------------------------------
(* Characters and text *)

LowerLetters == <<"a", "b", "c", "d", "e", "f", "g", "h", "i", "j", "k", "l", "m", "n", "o", "p", "q", "r", "s", "t", "u", "v", "w", "x", "y", "z">>

UpperLetters == <<"A", "B", "C", "D", "E", "F", "G", "H", "I", "J", "K", "L", "M", "N", "O", "P", "Q", "R", "S", "T", "U", "V", "W", "X", "Y", "Z">>

DigitChars == <<"0", "1", "2", "3", "4", "5", "6", "7", "8", "9">>

IsDigit(c) == \E i \in 1..10 : DigitChars[i] = c

IsLower(c) == \E i \in 1..26 : LowerLetters[i] = c

IsUpper(c) == \E i \in 1..26 : UpperLetters[i] = c

IsLetter(c) == IsLower(c) \/ IsUpper(c)

IsSpace(c) == c \in {" ", "\t", "\n"}

LowerChar(c) == IF IsUpper(c) THEN LowerLetters[CHOOSE i \in 1..26 : UpperLetters[i] = c] ELSE c

UpperChar(c) == IF IsLower(c) THEN UpperLetters[CHOOSE i \in 1..26 : LowerLetters[i] = c] ELSE c

DigitVal(c) == (CHOOSE i \in 1..10 : DigitChars[i] = c) - 1

\* str.lower()
Lower(s) == [i \in 1..Len(s) |-> LowerChar(s[i])]

\* str.upper()
Upper(s) == [i \in 1..Len(s) |-> UpperChar(s[i])]

\* str.title(): a letter is upper-cased after a non-letter, lower-cased after a letter
Title(s) == [i \in 1..Len(s) |-> IF i = 1 \/ ~IsLetter(s[i - 1]) THEN UpperChar(s[i]) ELSE LowerChar(s[i])]

RECURSIVE LStrip(_)
LStrip(s) == IF s # <<>> /\ IsSpace(Head(s)) THEN LStrip(Tail(s)) ELSE s

RECURSIVE RStrip(_)
RStrip(s) == IF s # <<>> /\ IsSpace(s[Len(s)]) THEN RStrip(SubSeq(s, 1, Len(s) - 1)) ELSE s

\* str.strip()
Strip(s) == RStrip(LStrip(s))

\* str.startswith / str.endswith
StartsWith(s, p) == Len(s) >= Len(p) /\ SubSeq(s, 1, Len(p)) = p

EndsWith(s, p) == Len(s) >= Len(p) /\ SubSeq(s, Len(s) - Len(p) + 1, Len(s)) = p

\* the Python operator  n in h  on two str
Contains(h, n) == \E i \in 0..(Len(h) - Len(n)) : SubSeq(h, i + 1, i + Len(n)) = n

\* str.isdigit()
AllDigits(s) == s # <<>> /\ \A i \in 1..Len(s) : IsDigit(s[i])

\* str.replace(a, b) for a one-character a
ReplaceChar(s, a, b) == [i \in 1..Len(s) |-> IF s[i] = a THEN b ELSE s[i]]

RECURSIVE DecNat(_)
DecNat(n) == IF n < 10 THEN <<DigitChars[n + 1]>> ELSE DecNat(n \div 10) \o <<DigitChars[(n % 10) + 1]>>

\* str() of a Python int
Dec(n) == IF n < 0 THEN <<"-">> \o DecNat(0 - n) ELSE DecNat(n)

RECURSIVE NatOf(_)
NatOf(s) == IF s = <<>> THEN 0 ELSE 10 * NatOf(SubSeq(s, 1, Len(s) - 1)) + DigitVal(s[Len(s)])

\* sep.join(parts)
RECURSIVE join_text(_, _)
join_text(parts, sep) == IF parts = <<>> THEN <<>> ELSE IF Len(parts) = 1 THEN parts[1] ELSE parts[1] \o sep \o join_text(Tail(parts), sep)

\* str.zfill(w)
RECURSIVE ZFill(_, _)
ZFill(s, w) == IF Len(s) >= w THEN s ELSE ZFill(<<"0">> \o s, w)

\* f"{n:,}" for n >= 0: groups of three digits from the right
RECURSIVE GroupThousands(_)
GroupThousands(ds) == IF Len(ds) <= 3 THEN ds ELSE GroupThousands(SubSeq(ds, 1, Len(ds) - 3)) \o <<",">> \o SubSeq(ds, Len(ds) - 2, Len(ds))

----------------------------------------------------------------------------
(* Cell values *)

IntV(n) == [t |-> "int", n |-> n, d |-> 0, s |-> <<>>]

FloatV(n, d) == [t |-> "float", n |-> n, d |-> d, s |-> <<>>]

StrV(s) == [t |-> "str", n |-> 0, d |-> 0, s |-> s]

NaN == [t |-> "nan", n |-> 0, d |-> 0, s |-> <<>>]

IsNum(v) == v.t \in {"int", "float"}

\* pd.isna(v)
IsNa(v) == v.t = "nan"

\* str(v): 45 -> "45", 45.0 -> "45.0", NaN -> "nan"
PyStr(v) == CASE v.t = "int" -> Dec(v.n) [] v.t = "float" -> Dec(v.n) \o <<".", DigitChars[v.d + 1]>> [] v.t = "nan" -> <<"n", "a", "n">> [] OTHER -> v.s

\* a == b as pandas evaluates it cell by cell: numbers by value, str by text,
\* a number never equals a str, NaN equals nothing
PyEq(a, b) == \/ IsNum(a) /\ IsNum(b) /\ a.n = b.n /\ a.d = b.d
              \/ a.t = "str" /\ b.t = "str" /\ a.s = b.s

\* the text of an integer literal: optional sign, then digits
IsIntText(s) == LET u == IF s # <<>> /\ Head(s) \in {"+", "-"} THEN Tail(s) ELSE s IN AllDigits(u)

IntTextVal(s) == IF Head(s) = "-" THEN 0 - NatOf(Tail(s)) ELSE IF Head(s) = "+" THEN NatOf(Tail(s)) ELSE NatOf(s)

\* int(v) succeeds: int("45.0") and int(NaN) raise ValueError
PyIntOk(v) == CASE v.t = "str" -> IsIntText(Strip(v.s)) [] v.t = "nan" -> FALSE [] OTHER -> TRUE

PyInt(v) == IF v.t = "str" THEN IntTextVal(Strip(v.s)) ELSE v.n

\* the text of a decimal literal digits "." digits (tenths are kept)
DotAt(s) == CHOOSE i \in 1..Len(s) : s[i] = "."

IsFloatText(s) == /\ \E i \in 1..Len(s) : s[i] = "."
                  /\ AllDigits(SubSeq(s, 1, DotAt(s) - 1))
                  /\ \A i \in (DotAt(s) + 1)..Len(s) : IsDigit(s[i])

\* pd.to_numeric(v, errors="coerce") of one cell
ToNumeric(v) == IF v.t # "str" THEN v
                ELSE LET u == Strip(v.s) IN
                     IF IsIntText(u) THEN IntV(IntTextVal(u))
                     ELSE IF IsFloatText(u)
                          THEN FloatV(NatOf(SubSeq(u, 1, DotAt(u) - 1)), IF DotAt(u) = Len(u) THEN 0 ELSE DigitVal(u[DotAt(u) + 1]))
                          ELSE NaN

\* int(pd.to_numeric(v)) succeeds: an unparsable str and NaN raise
ToIntOk(v) == IsNum(ToNumeric(v))

ToInt(v) == ToNumeric(v).n

\* re.sub(r"\D", "", str(x))
digits_only(x) == SelectSeq(PyStr(x), IsDigit)

\* norm_id: str(x).strip() without a trailing ".0"
norm_id(x) == LET s == Strip(PyStr(x)) IN IF EndsWith(s, <<".", "0">>) THEN SubSeq(s, 1, Len(s) - 2) ELSE s

----------------------------------------------------------------------------
(* Tables: column names in order, and rows of cells in column order *)

\* pd.DataFrame()
EmptyDF == [cols |-> <<>>, rows |-> <<>>]

\* the value None of a column name that was not found
None == <<"None">>

\* df.empty
df_empty(df) == Len(df.cols) = 0 \/ Len(df.rows) = 0

\* c in df.columns
HasCol(df, c) == \E i \in 1..Len(df.cols) : df.cols[i] = c

ColIdx(df, c) == CHOOSE i \in 1..Len(df.cols) : df.cols[i] = c /\ \A j \in 1..(i - 1) : df.cols[j] # c

\* df[c] at row r
Cell(df, r, c) == df.rows[r][ColIdx(df, c)]

RowIdx(df) == [i \in 1..Len(df.rows) |-> i]

\* df[mask]: the rows (by position, in order) where the boolean mask is true
RowsWhere(df, mask) == SelectSeq(RowIdx(df), LAMBDA r : mask[r])

\* the first element of a list of names that is a column of df, else None
FirstIn(names, df) == IF \E i \in 1..Len(names) : HasCol(df, names[i]) THEN names[CHOOSE i \in 1..Len(names) : HasCol(df, names[i]) /\ \A j \in 1..(i - 1) : ~HasCol(df, names[j])] ELSE None

\* the first column of df, in column order, that is hit, else None
FirstCol(df, hit) == IF \E i \in 1..Len(df.cols) : hit[i] THEN df.cols[CHOOSE i \in 1..Len(df.cols) : hit[i] /\ \A j \in 1..(i - 1) : ~hit[j]] ELSE None

\* a variant that drops an existing column and appends the new one at the end
WithCol_moved(df, c, vals) == LET keep == SelectSeq([i \in 1..Len(df.cols) |-> i], LAMBDA i : df.cols[i] # c)
                              IN [cols |-> Append([j \in 1..Len(keep) |-> df.cols[keep[j]]], c), rows |-> [r \in 1..Len(df.rows) |-> Append([j \in 1..Len(keep) |-> df.rows[r][keep[j]]], vals[r])]]

\* df with one more column, computed per row, appended (or overwritten in place)
WithCol(df, c, vals) == IF HasCol(df, c) THEN [df EXCEPT !.rows = [r \in 1..Len(df.rows) |-> [df.rows[r] EXCEPT ![ColIdx(df, c)] = vals[r]]]] ELSE [cols |-> Append(df.cols, c), rows |-> [r \in 1..Len(df.rows) |-> Append(df.rows[r], vals[r])]]

----------------------------------------------------------------------------
(* find_facility_column *)

facility_patterns == <<<<"f", "a", "c", "i", "l", "i", "t", "y", " ", "i", "d">>, <<"f", "a", "c", "i", "l", "i", "t", "y", "i", "d">>, <<"f", "a", "c", "i", "d">>, <<"f", "a", "c", "_", "i", "d">>, <<"f", "a", "c", " ", "i", "d">>, <<"f", "a", "c", "-", "i", "d">>, <<"f", "a", "c", "i", "l", "i", "t", "y", "_", "n", "u", "m", "b", "e", "r">>, <<"f", "a", "c", "i", "l", "i", "t", "y", " ", "n", "u", "m", "b", "e", "r">>, <<"f", "a", "c", "i", "l", "i", "t", "y", "_", "n", "o">>, <<"f", "a", "c", "i", "l", "i", "t", "y", "n", "o">>, <<"f", "a", "c", "n", "o">>, <<"f", "a", "c", " ", "n", "o">>>>

\* the regexes, each  ^stem[\s_\-]*tail$  (seps) or  ^stem tail$  (no separator allowed)
regexes == <<[stem |-> <<"f", "a", "c">>, tail |-> <<"i", "d">>, seps |-> TRUE], [stem |-> <<"f", "a", "c", "i", "l", "i", "t", "y">>, tail |-> <<"i", "d">>, seps |-> TRUE], [stem |-> <<"f", "a", "c", "i", "l", "i", "t", "y">>, tail |-> <<"i", "d">>, seps |-> FALSE], [stem |-> <<"f", "a", "c">>, tail |-> <<"i", "d">>, seps |-> FALSE], [stem |-> <<"f", "a", "c", "i", "l", "i", "t", "y">>, tail |-> <<"n", "u", "m", "b", "e", "r">>, seps |-> TRUE], [stem |-> <<"f", "a", "c", "i", "l", "i", "t", "y">>, tail |-> <<"n", "o">>, seps |-> FALSE], [stem |-> <<"f", "a", "c", "i", "l", "i", "t", "y">>, tail |-> <<"n", "o">>, seps |-> TRUE], [stem |-> <<"f", "a", "c">>, tail |-> <<"n", "o">>, seps |-> FALSE], [stem |-> <<"f", "a", "c">>, tail |-> <<"n", "o">>, seps |-> TRUE]>>

\* re.match of one of them
regex_match(rex, col_lc) == /\ StartsWith(col_lc, rex.stem)
                            /\ EndsWith(col_lc, rex.tail)
                            /\ Len(col_lc) >= Len(rex.stem) + Len(rex.tail)
                            /\ (~rex.seps => Len(col_lc) = Len(rex.stem) + Len(rex.tail))
                            /\ \A i \in (Len(rex.stem) + 1)..(Len(col_lc) - Len(rex.tail)) : col_lc[i] \in {" ", "\t", "\n", "_", "-"}

any_regex_match(col) == \E i \in 1..Len(regexes) : regex_match(regexes[i], Strip(Lower(col)))

partial_match(col) == LET col_lc == ReplaceChar(ReplaceChar(Lower(col), "_", " "), "-", " ") IN (Contains(col_lc, <<"f", "a", "c", "i", "l", "i", "t", "y">>) \/ Contains(col_lc, <<"f", "a", "c">>)) /\ Contains(col_lc, <<"i", "d">>)

owner_patterns == <<<<"o", "w", "n", "e", "r", " ", "i", "d">>, <<"o", "w", "n", "e", "r", "i", "d">>, <<"o", "w", "n", "i", "d">>>>

site_patterns == <<<<"s", "i", "t", "e", " ", "i", "d">>, <<"s", "i", "t", "e", "i", "d">>>>

\* a variant that tries the substring rule before the regexes
find_facility_column_partial_first(df) == IF df_empty(df) THEN None
                                          ELSE IF FirstIn(facility_patterns, df) # None THEN FirstIn(facility_patterns, df)
                                          ELSE IF FirstCol(df, [i \in 1..Len(df.cols) |-> partial_match(df.cols[i])]) # None THEN FirstCol(df, [i \in 1..Len(df.cols) |-> partial_match(df.cols[i])])
                                          ELSE IF FirstCol(df, [i \in 1..Len(df.cols) |-> any_regex_match(df.cols[i])]) # None THEN FirstCol(df, [i \in 1..Len(df.cols) |-> any_regex_match(df.cols[i])])
                                          ELSE IF FirstIn(owner_patterns, df) # None THEN FirstIn(owner_patterns, df)
                                          ELSE FirstIn(site_patterns, df)

\* find_facility_column
find_facility_column(df) == IF df_empty(df) THEN None
                            ELSE IF FirstIn(facility_patterns, df) # None THEN FirstIn(facility_patterns, df)
                            ELSE IF FirstCol(df, [i \in 1..Len(df.cols) |-> any_regex_match(df.cols[i])]) # None THEN FirstCol(df, [i \in 1..Len(df.cols) |-> any_regex_match(df.cols[i])])
                            ELSE IF FirstCol(df, [i \in 1..Len(df.cols) |-> partial_match(df.cols[i])]) # None THEN FirstCol(df, [i \in 1..Len(df.cols) |-> partial_match(df.cols[i])])
                            ELSE IF FirstIn(owner_patterns, df) # None THEN FirstIn(owner_patterns, df)
                            ELSE FirstIn(site_patterns, df)

----------------------------------------------------------------------------
(* The literals of the program *)

\* column names the code looks up by name
col == [facility_id |-> <<"f", "a", "c", "i", "l", "i", "t", "y", " ", "i", "d">>, owner_id |-> <<"o", "w", "n", "e", "r", " ", "i", "d">>, facility_name |-> <<"f", "a", "c", "i", "l", "i", "t", "y", " ", "n", "a", "m", "e">>, name |-> <<"n", "a", "m", "e">>, owner_name |-> <<"o", "w", "n", "e", "r", " ", "n", "a", "m", "e">>, site_name |-> <<"s", "i", "t", "e", " ", "n", "a", "m", "e">>, owner_address_1 |-> <<"o", "w", "n", "e", "r", " ", "a", "d", "d", "r", "e", "s", "s", " ", "1">>, owner_city |-> <<"o", "w", "n", "e", "r", " ", "c", "i", "t", "y">>, owner_state |-> <<"o", "w", "n", "e", "r", " ", "s", "t", "a", "t", "e">>, owner_zip |-> <<"o", "w", "n", "e", "r", " ", "z", "i", "p">>, tank_number |-> <<"t", "a", "n", "k", " ", "n", "u", "m", "b", "e", "r">>, tank_status |-> <<"t", "a", "n", "k", " ", "s", "t", "a", "t", "u", "s">>, contents |-> <<"c", "o", "n", "t", "e", "n", "t", "s">>, capacity |-> <<"c", "a", "p", "a", "c", "i", "t", "y">>, install_date |-> <<"i", "n", "s", "t", "a", "l", "l", " ", "d", "a", "t", "e">>, clean_facility_id |-> <<"c", "l", "e", "a", "n", "_", "f", "a", "c", "i", "l", "i", "t", "y", "_", "i", "d">>, clean_owner_id |-> <<"c", "l", "e", "a", "n", "_", "o", "w", "n", "e", "r", "_", "i", "d">>, clean_tank_number |-> <<"c", "l", "e", "a", "n", "_", "t", "a", "n", "k", "_", "n", "u", "m", "b", "e", "r">>, full_address |-> <<"f", "u", "l", "l", "_", "a", "d", "d", "r", "e", "s", "s">>]

\* the candidate address columns of SiteInfo, in the order pick() tries them
site_cols == [street |-> <<<<"s", "i", "t", "e", " ", "a", "d", "d", "r", "e", "s", "s", " ", "1">>, <<"s", "i", "t", "e", " ", "a", "d", "d", "r", "e", "s", "s">>, <<"a", "d", "d", "r", "e", "s", "s", " ", "1">>, <<"a", "d", "d", "r", "e", "s", "s">>, <<"f", "a", "c", "i", "l", "i", "t", "y", " ", "a", "d", "d", "r", "e", "s", "s", " ", "1">>, <<"f", "a", "c", "i", "l", "i", "t", "y", " ", "a", "d", "d", "r", "e", "s", "s">>>>, city |-> <<<<"s", "i", "t", "e", " ", "c", "i", "t", "y">>, <<"c", "i", "t", "y">>, <<"f", "a", "c", "i", "l", "i", "t", "y", " ", "c", "i", "t", "y">>>>, state |-> <<<<"s", "i", "t", "e", " ", "s", "t", "a", "t", "e">>, <<"s", "t", "a", "t", "e">>, <<"f", "a", "c", "i", "l", "i", "t", "y", " ", "s", "t", "a", "t", "e">>>>, zip |-> <<<<"s", "i", "t", "e", " ", "z", "i", "p">>, <<"z", "i", "p">>, <<"z", "i", "p", "c", "o", "d", "e">>, <<"z", "i", "p", " ", "c", "o", "d", "e">>, <<"z", "i", "p", " ", "5">>, <<"f", "a", "c", "i", "l", "i", "t", "y", " ", "z", "i", "p">>>>]

\* texts the code compares with or renders ("--" stands for the one character U+2014)
txt == [CURR_IN_USE |-> <<"C", "U", "R", "R", " ", "I", "N", " ", "U", "S", "E">>, NA |-> <<"N", "/", "A">>, Unknown |-> <<"U", "n", "k", "n", "o", "w", "n">>, Not_Listed |-> <<"N", "o", "t", " ", "L", "i", "s", "t", "e", "d">>, Yes |-> <<"Y", "e", "s">>, No |-> <<"N", "o">>, Fiberglass |-> <<"F", "i", "b", "e", "r", "g", "l", "a", "s", "s">>, Fiberglass_DW |-> <<"F", "i", "b", "e", "r", "g", "l", "a", "s", "s", " ", "(", "D", "o", "u", "b", "l", "e", " ", "W", "a", "l", "l", ")">>, comma |-> <<",", " ">>, space |-> <<" ">>, dash |-> <<" ", "--", " ">>]

----------------------------------------------------------------------------
(* Text search: series.astype(str).str.contains(pat, case=False, na=False) *)

\* re.search(pat, text, re.I) for a pattern of literal characters and "."
re_search(pat, text) == \E i \in 0..(Len(text) - Len(pat)) : \A j \in 1..Len(pat) : pat[j] = "." \/ LowerChar(pat[j]) = LowerChar(text[i + j])

str_contains(v, pat) == re_search(pat, PyStr(v))

\* the groups open after the first k characters of pat
open_groups(pat, k) == Cardinality({j \in 1..k : pat[j] = "("}) - Cardinality({j \in 1..k : pat[j] = ")"})

\* re.compile(pat) succeeds: every group that opens is closed and none closes unopened
\* (patterns of literal characters, ".", "(" and ")")
re_compiles(pat) == open_groups(pat, Len(pat)) = 0 /\ \A k \in 1..Len(pat) : open_groups(pat, k) >= 0

\* series.dropna().unique().tolist(): first occurrences, in order
RECURSIVE unique(_)
unique(vs) == IF vs = <<>> THEN <<>> ELSE LET rest == unique(SubSeq(vs, 1, Len(vs) - 1)) v == vs[Len(vs)] IN IF IsNa(v) \/ \E i \in 1..Len(rest) : PyEq(rest[i], v) THEN rest ELSE Append(rest, v)

\* the cells of column c in the given rows
ColOf(df, rows, c) == [i \in 1..Len(rows) |-> Cell(df, rows[i], c)]

\* street + ", " + city + ", " + state + " " + zip of one row, each str()'d and stripped
address_of(df, r, street, city, state, zip) == Strip(PyStr(Cell(df, r, street))) \o txt.comma \o Strip(PyStr(Cell(df, r, city))) \o txt.comma \o Strip(PyStr(Cell(df, r, state))) \o txt.space \o Strip(PyStr(Cell(df, r, zip)))

\* pick(df, candidates)
pick(df, candidates) == FirstIn(candidates, df)

\* the rows of df that a text query matches in one of the name columns present or in the address
text_matches(df, q, names, addr) == SelectSeq(RowIdx(df), LAMBDA r : (\E i \in 1..Len(names) : HasCol(df, names[i]) /\ str_contains(Cell(df, r, names[i]), q)) \/ re_search(q, addr[r]))

\* df[df[c] == v]
rows_equal(df, c, v) == RowsWhere(df, [r \in 1..Len(df.rows) |-> PyEq(Cell(df, r, c), v)])

----------------------------------------------------------------------------
(* State *)

VARIABLES files, facility_input, debug_mode, tanks, owner, ustpipe, usttankmaterials, ustpipe_release, siteinfo, facility_col, tanks_filtered, candidate_fids, path, facility_id, owner_filtered, base_filtered, pipe_filtered, tank_materials_filtered, release_filtered, active_tanks, out, pc

vars == <<files, facility_input, debug_mode, tanks, owner, ustpipe, usttankmaterials, ustpipe_release, siteinfo, facility_col, tanks_filtered, candidate_fids, path, facility_id, owner_filtered, base_filtered, pipe_filtered, tank_materials_filtered, release_filtered, active_tanks, out, pc>>

----------------------------------------------------------------------------
(* Loading: the uploaded files become tables with normalized column names *)

\* re.sub(r"\s+", " ", s)
RECURSIVE CollapseWs(_)
CollapseWs(s) == IF s = <<>> THEN <<>> ELSE IF IsSpace(Head(s)) THEN <<" ">> \o CollapseWs(LStrip(s)) ELSE <<Head(s)>> \o CollapseWs(Tail(s))

read_csv_safe(file) == IF ~file.present \/ file.cols = <<>> THEN EmptyDF ELSE [cols |-> [i \in 1..Len(file.cols) |-> Lower(Strip(file.cols[i]))], rows |-> file.rows]

\* the pipe-materials sheet: whitespace runs in column names collapse, and the
\* digits-only helper columns are added
load_ustpipe(file) == IF ~file.present \/ file.cols = <<>> THEN EmptyDF
                      ELSE LET df0 == [cols |-> [i \in 1..Len(file.cols) |-> CollapseWs(Lower(Strip(file.cols[i])))], rows |-> file.rows]
                               df1 == IF HasCol(df0, col.facility_id) THEN WithCol(df0, col.clean_facility_id, [r \in 1..Len(df0.rows) |-> StrV(digits_only(Cell(df0, r, col.facility_id)))]) ELSE df0
                           IN IF HasCol(df1, col.owner_id) THEN WithCol(df1, col.clean_owner_id, [r \in 1..Len(df1.rows) |-> StrV(digits_only(Cell(df1, r, col.owner_id)))]) ELSE df1

\* sorted(values) raises TypeError when text has to be compared with a number or NaN
sorted_raises(vals) == (\E i \in 1..Len(vals) : vals[i].t = "str") /\ (\E j \in 1..Len(vals) : vals[j].t # "str")

\* Debug Mode: sorted(ustpipe[col].dropna().unique()) over the key columns of the sheet
key_columns_raise(up) == \E c \in {col.facility_id, col.owner_id, col.tank_number, col.tank_status} : HasCol(up, c) /\ sorted_raises(SelectSeq(ColOf(up, RowIdx(up), c), LAMBDA v : ~IsNa(v)))

\* ustpipe as loading leaves it: an exception of the debug output empties the table
ustpipe_loaded(file, debug) == IF debug /\ key_columns_raise(load_ustpipe(file)) THEN EmptyDF ELSE load_ustpipe(file)

\* Debug Mode: sorted(ustpipe[facility_col_pipe].unique()) after the columns are detected
debug_ids_raise(up, fcpipe) == fcpipe # None /\ HasCol(up, fcpipe) /\ sorted_raises(ColOf(up, RowIdx(up), fcpipe))

\* the guard of the whole run: a query and the five uploads
inputs_given == facility_input # <<>> /\ files.tanks.present /\ files.owner.present /\ files.pipe.present /\ files.materials.present /\ files.release.present

\* check_empty_df over tanks, owner, tank materials and release detection
empty_tables(tk, ow, tm, rel) == (IF df_empty(tk) THEN {"tanks.csv"} ELSE {}) \cup (IF df_empty(ow) THEN {"owner.csv"} ELSE {}) \cup (IF df_empty(tm) THEN {"usttankmaterials.csv"} ELSE {}) \cup (IF df_empty(rel) THEN {"usttankpipereleasedetection.csv"} ELSE {})

NoOut == [info |-> "", warnings |-> {}, labels |-> <<>>, chosen |-> 0, summary |-> <<>>, blocks |-> <<>>]

Load == /\ pc = "start"
        /\ IF ~inputs_given
           THEN /\ out' = [out EXCEPT !.info = "upload"]
                /\ pc' = "done"
                /\ UNCHANGED <<tanks, owner, ustpipe, usttankmaterials, ustpipe_release, siteinfo, facility_col>>
           ELSE LET tk == read_csv_safe(files.tanks)
                    ow == read_csv_safe(files.owner)
                    si == read_csv_safe(files.siteinfo)
                    up == ustpipe_loaded(files.pipe, debug_mode)
                    rel == read_csv_safe(files.release)
                    tm == read_csv_safe(files.materials)
                    empt == empty_tables(tk, ow, tm, rel)
                IN /\ tanks' = tk /\ owner' = ow /\ siteinfo' = si /\ ustpipe' = up /\ ustpipe_release' = rel /\ usttankmaterials' = tm
                   /\ IF empt # {}
                      THEN /\ out' = [out EXCEPT !.info = "skipped", !.warnings = empt]
                           /\ pc' = "done"
                           /\ UNCHANGED facility_col
                      ELSE /\ facility_col' = [tanks |-> find_facility_column(tk), owner |-> find_facility_column(ow), pipe |-> IF df_empty(up) THEN None ELSE find_facility_column(up), materials |-> find_facility_column(tm), release |-> find_facility_column(rel), site |-> IF df_empty(si) THEN None ELSE find_facility_column(si)]
                           /\ out' = out
                           /\ pc' = IF debug_mode /\ debug_ids_raise(up, IF df_empty(up) THEN None ELSE find_facility_column(up)) THEN "raised" ELSE "resolve"
        /\ UNCHANGED <<files, facility_input, debug_mode, tanks_filtered, candidate_fids, path, facility_id, owner_filtered, base_filtered, pipe_filtered, tank_materials_filtered, release_filtered, active_tanks>>

----------------------------------------------------------------------------
(* Facility resolution *)

\* a variant that compares the column with the query's text, not with int(facility_input)
id_search_text(q, tk, fc) == IF fc.tanks # None /\ HasCol(tk, fc.tanks) THEN rows_equal(tk, fc.tanks, StrV(q)) ELSE <<>>

\* tanks[tanks[facility_col_tanks] == int(facility_input)]
id_search(q, tk, fc) == IF fc.tanks # None /\ HasCol(tk, fc.tanks) THEN rows_equal(tk, fc.tanks, IntV(PyInt(StrV(q)))) ELSE <<>>

\* the facility-name search in tanks
name_search(q, tk) == IF HasCol(tk, col.facility_name) THEN RowsWhere(tk, [r \in 1..Len(tk.rows) |-> str_contains(Cell(tk, r, col.facility_name), q)]) ELSE <<>>

\* owner_search["full_address"]
owner_full_address(ow, r) == IF HasCol(ow, col.owner_address_1) /\ HasCol(ow, col.owner_city) /\ HasCol(ow, col.owner_state) /\ HasCol(ow, col.owner_zip) THEN address_of(ow, r, col.owner_address_1, col.owner_city, col.owner_state, col.owner_zip) ELSE <<>>

owner_matches(q, ow) == text_matches(ow, q, <<col.name, col.owner_name, col.site_name>>, [r \in 1..Len(ow.rows) |-> owner_full_address(ow, r)])

\* matched_fids: the distinct facility ids of the owner rows the query matches
matched_fids(q, tk, ow, fc) == IF owner_matches(q, ow) # <<>> /\ HasCol(ow, fc.owner) /\ HasCol(tk, fc.tanks) THEN unique(ColOf(ow, owner_matches(q, ow), fc.owner)) ELSE <<>>

\* site_search["full_address"]
site_full_address(si, r) == IF pick(si, site_cols.street) # None /\ pick(si, site_cols.city) # None /\ pick(si, site_cols.state) # None /\ pick(si, site_cols.zip) # None THEN address_of(si, r, pick(si, site_cols.street), pick(si, site_cols.city), pick(si, site_cols.state), pick(si, site_cols.zip)) ELSE <<>>

site_matches(q, si) == text_matches(si, q, <<col.name, col.site_name>>, [r \in 1..Len(si.rows) |-> site_full_address(si, r)])

\* site_fids: the distinct facility ids of the SiteInfo rows the query matches
site_fids(q, si, fc) == IF site_matches(q, si) # <<>> /\ HasCol(si, fc.site) THEN unique(ColOf(si, site_matches(q, si), fc.site)) ELSE <<>>

\* the guard of the SiteInfo search, given the Tanks rows selected so far
site_search_due(tf, tk, si, fc) == tf = <<>> /\ ~df_empty(si) /\ fc.site # None /\ HasCol(tk, fc.tanks)

\* what resolution leaves: the Tanks rows selected, the candidates, the searches made
resolved(tf, cands, doOwner, doSite) == [tanks_filtered |-> tf, candidate_fids |-> cands, path |-> {"name"} \cup (IF doOwner THEN {"owner"} ELSE {}) \cup (IF doSite THEN {"site"} ELSE {})]

\* one id selects its Tanks rows, two or more become candidates
single_or_candidates(tk, fc, fids, tf, cands) == [tanks_filtered |-> IF Len(fids) = 1 THEN rows_equal(tk, fc.tanks, fids[1]) ELSE tf, candidate_fids |-> IF Len(fids) >= 2 THEN cands \o fids ELSE cands]

\* the SiteInfo search, made when no Tanks row is selected yet
site_stage(q, tk, si, fc, r, doOwner, doSite) == resolved(single_or_candidates(tk, fc, IF doSite THEN site_fids(q, si, fc) ELSE <<>>, r.tanks_filtered, r.candidate_fids).tanks_filtered, single_or_candidates(tk, fc, IF doSite THEN site_fids(q, si, fc) ELSE <<>>, r.tanks_filtered, r.candidate_fids).candidate_fids, doOwner, doSite)

\* the Owners search, made when the name search selected no Tanks row
owner_stage(q, tk, ow, si, fc, r, doOwner) == site_stage(q, tk, si, fc, r, doOwner, site_search_due(r.tanks_filtered, tk, si, fc))

\* the try/except around int(facility_input): the exact id match, or else
\* the name search, the owner search and the SiteInfo search
text_search(q, tk, ow, si, fc, t1) == owner_stage(q, tk, ow, si, fc, single_or_candidates(tk, fc, IF t1 = <<>> /\ ~df_empty(ow) THEN matched_fids(q, tk, ow, fc) ELSE <<>>, t1, <<>>), t1 = <<>> /\ ~df_empty(ow))

\* a str.contains call is reached with a pattern that does not compile: re.error is
\* no ValueError and leaves the except clause
contains_raises(q, tk, ow, si, fc) == /\ ~PyIntOk(StrV(q))
                                      /\ ~re_compiles(q)
                                      /\ HasCol(tk, col.facility_name) \/ ~df_empty(ow) \/ site_search_due(<<>>, tk, si, fc)

resolve(q, tk, ow, si, fc) == IF PyIntOk(StrV(q)) THEN [tanks_filtered |-> id_search(q, tk, fc), candidate_fids |-> <<>>, path |-> {"id"}] ELSE text_search(q, tk, ow, si, fc, name_search(q, tk))

Resolve == /\ pc = "resolve"
           /\ IF contains_raises(facility_input, tanks, owner, siteinfo, facility_col)
              THEN /\ pc' = "raised"
                   /\ UNCHANGED <<tanks_filtered, candidate_fids, path>>
              ELSE LET r == resolve(facility_input, tanks, owner, siteinfo, facility_col)
                   IN /\ tanks_filtered' = r.tanks_filtered
                      /\ candidate_fids' = r.candidate_fids
                      /\ path' = r.path
                      /\ pc' = IF r.tanks_filtered = <<>> /\ r.candidate_fids # <<>> /\ HasCol(tanks, facility_col.tanks) THEN "select" ELSE "resolved"
           /\ UNCHANGED <<files, facility_input, debug_mode, tanks, owner, ustpipe, usttankmaterials, ustpipe_release, siteinfo, facility_col, facility_id, owner_filtered, base_filtered, pipe_filtered, tank_materials_filtered, release_filtered, active_tanks, out>>

\* _normalize_zip: no trailing ".0", and up to five digits are left-padded with zeros
normalize_zip(val) == LET s == norm_id(val) IN IF AllDigits(s) /\ Len(s) <= 5 THEN ZFill(s, 5) ELSE s

\* str(df[c].iloc[-1]) over the rows given, or "" when there is none or no such column
last_text(df, rows, c) == IF rows # <<>> /\ HasCol(df, c) THEN PyStr(Cell(df, rows[Len(rows)], c)) ELSE <<>>

\* f"{street}, {city}, {state} {zip}" of the last of the SiteInfo rows given, or ""
site_address_of(si, rows) == IF rows # <<>> /\ pick(si, site_cols.street) # None /\ pick(si, site_cols.city) # None /\ pick(si, site_cols.state) # None /\ pick(si, site_cols.zip) # None
                             THEN LET r == rows[Len(rows)] IN PyStr(Cell(si, r, pick(si, site_cols.street))) \o txt.comma \o PyStr(Cell(si, r, pick(si, site_cols.city))) \o txt.comma \o PyStr(Cell(si, r, pick(si, site_cols.state))) \o txt.space \o normalize_zip(Cell(si, r, pick(si, site_cols.zip)))
                             ELSE <<>>

or_NA(s) == IF s = <<>> THEN txt.NA ELSE s

\* the label of one candidate: id, name (Owners first, then SiteInfo) and site address
label_of(fid, ow, si, fc) == LET o == IF HasCol(ow, fc.owner) THEN rows_equal(ow, fc.owner, fid) ELSE <<>>
                                 n1 == last_text(ow, o, col.name)
                                 srow == IF ~df_empty(si) /\ HasCol(si, fc.site) THEN rows_equal(si, fc.site, fid) ELSE <<>>
                                 n2 == IF n1 = <<>> THEN last_text(si, srow, col.name) ELSE n1
                             IN PyStr(fid) \o txt.dash \o or_NA(n2) \o txt.dash \o or_NA(site_address_of(si, srow))

unique_fids_kept(cands) == cands

\* list(dict.fromkeys(candidate_fids))
unique_fids(cands) == unique(cands)

labels_of(cands, ow, si, fc) == [i \in 1..Len(unique_fids(cands)) |-> label_of(unique_fids(cands)[i], ow, si, fc)]

\* labels.index(selection)
index_of(labels, selection) == CHOOSE i \in 1..Len(labels) : labels[i] = selection /\ \A j \in 1..(i - 1) : labels[j] # selection

\* the selectbox: the caller picks the i-th label, the code maps the label back to an id
Choose == /\ pc = "select"
          /\ \E i \in 1..Len(unique_fids(candidate_fids)) :
               LET labels == labels_of(candidate_fids, owner, siteinfo, facility_col)
                   chosen_fid == unique_fids(candidate_fids)[index_of(labels, labels[i])]
               IN /\ tanks_filtered' = rows_equal(tanks, facility_col.tanks, chosen_fid)
                  /\ out' = [out EXCEPT !.labels = labels, !.chosen = i]
          /\ pc' = "resolved"
          /\ UNCHANGED <<files, facility_input, debug_mode, tanks, owner, ustpipe, usttankmaterials, ustpipe_release, siteinfo, facility_col, candidate_fids, path, facility_id, owner_filtered, base_filtered, pipe_filtered, tank_materials_filtered, release_filtered, active_tanks>>

\* st.warning("No facility found for that ID or name.")
NotFound == /\ pc = "resolved"
            /\ tanks_filtered = <<>>
            /\ out' = [out EXCEPT !.info = "not found"]
            /\ pc' = "done"
            /\ UNCHANGED <<files, facility_input, debug_mode, tanks, owner, ustpipe, usttankmaterials, ustpipe_release, siteinfo, facility_col, tanks_filtered, candidate_fids, path, facility_id, owner_filtered, base_filtered, pipe_filtered, tank_materials_filtered, release_filtered, active_tanks>>

----------------------------------------------------------------------------
(* Joining the detail tables to the resolved facility *)

\* base_filtered: None, or a row subset of ustpipe
NoBase == [none |-> TRUE, rows |-> <<>>]

Some(rows) == [none |-> FALSE, rows |-> rows]

\* base_filtered is None or base_filtered.empty
none_or_empty(b) == b.none \/ b.rows = <<>>

\* Strategy 0: ustpipe['clean_facility_id'] == re.sub(r"\D", "", str(facility_id))
mask_clean(up, f) == IF HasCol(up, col.clean_facility_id) THEN rows_equal(up, col.clean_facility_id, StrV(digits_only(f))) ELSE <<>>

\* Strategy A: pd.to_numeric(series, errors='coerce') == int(pd.to_numeric(facility_id));
\* the except branch leaves no match
mask_num(up, c, f) == IF ToIntOk(f) THEN RowsWhere(up, [r \in 1..Len(up.rows) |-> PyEq(ToNumeric(Cell(up, r, c)), IntV(ToInt(f)))]) ELSE <<>>

\* Strategy B: series.apply(norm_id) == norm_id(facility_id)
mask_norm(up, c, f) == RowsWhere(up, [r \in 1..Len(up.rows) |-> norm_id(Cell(up, r, c)) = norm_id(f)])

\* Strategy C: series.astype(str).str.strip() == str(facility_id)
mask_str(up, c, f) == RowsWhere(up, [r \in 1..Len(up.rows) |-> Strip(PyStr(Cell(up, r, c))) = PyStr(f)])

\* Strategy D: series.apply(digits_only) == digits_only(facility_id)
mask_digits(up, c, f) == RowsWhere(up, [r \in 1..Len(up.rows) |-> digits_only(Cell(up, r, c)) = digits_only(f)])

\* the outcome of one guarded strategy: it runs when nothing is held, and keeps a non-empty mask
guarded(b, mask) == IF none_or_empty(b) /\ mask # <<>> THEN Some(mask) ELSE b

\* the numeric strategy: it runs whatever is held, and a non-empty mask replaces it
strategy_A(b, mask) == IF mask # <<>> THEN Some(mask) ELSE b

\* First: the strategies over the canonical 'facility id' column
by_facility_id(up, f) == IF ~HasCol(up, col.facility_id) THEN NoBase
                         ELSE LET b0 == IF mask_clean(up, f) # <<>> THEN Some(mask_clean(up, f)) ELSE NoBase
                                  b1 == strategy_A(b0, mask_num(up, col.facility_id, f))
                                  b2 == guarded(b1, mask_norm(up, col.facility_id, f))
                                  b3 == guarded(b2, mask_str(up, col.facility_id, f))
                              IN guarded(b3, mask_digits(up, col.facility_id, f))

\* pd.to_numeric(series, errors='coerce'): int64 when every cell is an int, else float64
to_numeric_column(up, c) == LET conv == [r \in 1..Len(up.rows) |-> ToNumeric(Cell(up, r, c))]
                                allInt == \A r \in 1..Len(up.rows) : conv[r].t = "int"
                            IN WithCol(up, c, [r \in 1..Len(up.rows) |-> IF allInt \/ IsNa(conv[r]) THEN conv[r] ELSE FloatV(conv[r].n, conv[r].d)])

\* Second: the detected facility column, rewritten in place as numbers; int(facility_id)
\* raising leaves the comparison of the rewritten column's text
by_detected_column(up, c, f) == LET up2 == to_numeric_column(up, c)
                                IN [ustpipe |-> up2, base |-> Some(IF PyIntOk(f) THEN rows_equal(up2, c, IntV(PyInt(f))) ELSE RowsWhere(up2, [r \in 1..Len(up2.rows) |-> PyStr(Cell(up2, r, c)) = PyStr(f)]))]

\* current_owner_id: the last numeric owner id of the facility's owner rows as an int,
\* else the last raw value, else None
current_owner_id(ow, orows) == IF orows = <<>> \/ ~HasCol(ow, col.owner_id) THEN [none |-> TRUE, v |-> NaN]
                               ELSE LET nums == SelectSeq([i \in 1..Len(orows) |-> ToNumeric(Cell(ow, orows[i], col.owner_id))], LAMBDA x : ~IsNa(x))
                                    IN [none |-> FALSE, v |-> IF nums # <<>> THEN IntV(nums[Len(nums)].n) ELSE Cell(ow, orows[Len(orows)], col.owner_id)]

\* Third: the 'owner id' column against the current owner id (the digits-only result
\* of its step 0 is always overwritten by the numeric step)
by_owner_id(up, oid) == LET mA == IF ToIntOk(oid) THEN Some(RowsWhere(up, [r \in 1..Len(up.rows) |-> PyEq(ToNumeric(Cell(up, r, col.owner_id)), IntV(ToInt(oid)))])) ELSE NoBase
                            mB == IF none_or_empty(mA) THEN Some(mask_str(up, col.owner_id, oid)) ELSE mA
                        IN IF none_or_empty(mB) THEN Some(mask_digits(up, col.owner_id, oid)) ELSE mB

\* Fourth: ustpipe['tank number'].astype(str) == str(facility_id)
by_tank_number(up, f) == Some(RowsWhere(up, [r \in 1..Len(up.rows) |-> PyStr(Cell(up, r, col.tank_number)) = PyStr(f)]))

\* a variant that filters by status without falling back
prefer_in_use_strict(up, rows) == IF HasCol(up, col.tank_status) THEN SelectSeq(rows, LAMBDA r : PyEq(Cell(up, r, col.tank_status), StrV(txt.CURR_IN_USE))) ELSE rows

\* the status preference: the rows in use when there is one, else all of them
prefer_in_use(up, rows) == IF HasCol(up, col.tank_status) /\ SelectSeq(rows, LAMBDA r : PyEq(Cell(up, r, col.tank_status), StrV(txt.CURR_IN_USE))) # <<>> THEN SelectSeq(rows, LAMBDA r : PyEq(Cell(up, r, col.tank_status), StrV(txt.CURR_IN_USE))) ELSE rows

\* the status preference closes the join: None leaves no row
pipe_status(up, b) == [ustpipe |-> up, base |-> b, pipe_filtered |-> IF b.none THEN <<>> ELSE prefer_in_use(up, b.rows)]

\* Fourth, when nothing is held and there is a 'tank number' column
pipe_fourth(up, b, f) == pipe_status(up, IF none_or_empty(b) /\ HasCol(up, col.tank_number) THEN by_tank_number(up, f) ELSE b)

\* Third, when nothing is held, there is an 'owner id' column and a current owner id
pipe_third(s, f, oid) == pipe_fourth(s.ustpipe, IF none_or_empty(s.base) /\ HasCol(s.ustpipe, col.owner_id) /\ ~oid.none THEN by_owner_id(s.ustpipe, oid.v) ELSE s.base, f)

\* Second, when nothing is held and a facility column was detected
pipe_second(up, b, f, fcpipe, oid) == pipe_third(IF none_or_empty(b) /\ fcpipe # None /\ HasCol(up, fcpipe) THEN by_detected_column(up, fcpipe, f) ELSE [ustpipe |-> up, base |-> b], f, oid)

\* the pipe-materials join: the table as it is left, base_filtered and pipe_filtered
\* (no pipe-materials file is found on disk)
join_pipe(up, f, fcpipe, ow, orows) == IF df_empty(up) THEN [ustpipe |-> up, base |-> NoBase, pipe_filtered |-> <<>>] ELSE pipe_second(up, by_facility_id(up, f), f, fcpipe, current_owner_id(ow, orows))

\* df[df[c] == facility_id] for owner, tank materials and release detection;
\* without the column the join is skipped
join_on(df, c, f) == IF c # None /\ HasCol(df, c) THEN rows_equal(df, c, f) ELSE <<>>

Join == /\ pc = "resolved"
        /\ tanks_filtered # <<>>
        /\ IF ~HasCol(tanks, facility_col.tanks)
           THEN /\ pc' = "raised"
                /\ UNCHANGED <<ustpipe, facility_id, owner_filtered, base_filtered, pipe_filtered, tank_materials_filtered, release_filtered, out>>
           ELSE LET f == Cell(tanks, tanks_filtered[1], facility_col.tanks)
                    orows == join_on(owner, facility_col.owner, f)
                    p == join_pipe(ustpipe, f, facility_col.pipe, owner, orows)
                IN /\ facility_id' = f
                   /\ owner_filtered' = orows
                   /\ ustpipe' = p.ustpipe
                   /\ base_filtered' = p.base
                   /\ pipe_filtered' = p.pipe_filtered
                   /\ tank_materials_filtered' = join_on(usttankmaterials, facility_col.materials, f)
                   /\ release_filtered' = join_on(ustpipe_release, facility_col.release, f)
                   /\ out' = [out EXCEPT !.warnings = @ \cup (IF HasCol(owner, facility_col.owner) THEN {} ELSE {"owner.csv: no facility id column"}) \cup (IF HasCol(usttankmaterials, facility_col.materials) THEN {} ELSE {"usttankmaterials.csv: no facility id column"}) \cup (IF HasCol(ustpipe_release, facility_col.release) THEN {} ELSE {"usttankpipereleasedetection.csv: no facility id column"})]
                   /\ pc' = "joined"
        /\ UNCHANGED <<files, facility_input, debug_mode, tanks, owner, usttankmaterials, ustpipe_release, siteinfo, facility_col, tanks_filtered, candidate_fids, path, active_tanks>>

----------------------------------------------------------------------------
(* The facility summary and the active tanks *)

\* str(df[c].iloc[-1]) of the rows given, or "N/A"
last_or_NA(df, rows, c) == or_NA(last_text(df, rows, c))

\* the owner address of the last owner row, with the zip normalized, or "N/A"
owner_address(ow, rows) == IF rows # <<>> /\ HasCol(ow, col.owner_address_1) /\ HasCol(ow, col.owner_city) /\ HasCol(ow, col.owner_state) /\ HasCol(ow, col.owner_zip)
                           THEN LET r == rows[Len(rows)] IN PyStr(Cell(ow, r, col.owner_address_1)) \o txt.comma \o PyStr(Cell(ow, r, col.owner_city)) \o txt.comma \o PyStr(Cell(ow, r, col.owner_state)) \o txt.space \o normalize_zip(Cell(ow, r, col.owner_zip))
                           ELSE txt.NA

\* the site address of the facility's last SiteInfo row, or "N/A"
site_address(si, c, f) == IF c # None /\ HasCol(si, c) THEN or_NA(site_address_of(si, rows_equal(si, c, f))) ELSE txt.NA

\* a variant that, like the pipe join, keeps every row when none is in use
active_rows_fallback(tk, rows) == IF HasCol(tk, col.tank_status) THEN prefer_in_use(tk, rows) ELSE <<>>

\* tanks_filtered[tanks_filtered["tank status"] == "CURR IN USE"], or no row without the column
active_rows(tk, rows) == IF HasCol(tk, col.tank_status) THEN SelectSeq(rows, LAMBDA r : PyEq(Cell(tk, r, col.tank_status), StrV(txt.CURR_IN_USE))) ELSE <<>>

\* Debug Mode: sorted(...["tank number"].unique()) over tanks_filtered and pipe_filtered
debug_numbers_raise(tk, trows, up, prows) == \/ HasCol(tk, col.tank_number) /\ sorted_raises(ColOf(tk, trows, col.tank_number))
                                             \/ prows # <<>> /\ HasCol(up, col.tank_number) /\ sorted_raises(ColOf(up, prows, col.tank_number))

\* the Facility Summary markdown (the dealer id line is not modelled) and active_tanks
Summary == /\ pc = "joined"
           /\ out' = [out EXCEPT !.summary = <<[facility_id |-> PyStr(facility_id), owner_name |-> last_or_NA(owner, owner_filtered, col.owner_name), site_name |-> last_or_NA(owner, owner_filtered, col.name), owner_address |-> owner_address(owner, owner_filtered), site_address |-> site_address(siteinfo, facility_col.site, facility_id)]>>]
           /\ active_tanks' = active_rows(tanks, tanks_filtered)
           /\ pc' = IF debug_mode /\ debug_numbers_raise(tanks, tanks_filtered, ustpipe, pipe_filtered) THEN "raised" ELSE "tanks"
           /\ UNCHANGED <<files, facility_input, debug_mode, tanks, owner, ustpipe, usttankmaterials, ustpipe_release, siteinfo, facility_col, tanks_filtered, candidate_fids, path, facility_id, owner_filtered, base_filtered, pipe_filtered, tank_materials_filtered, release_filtered>>

----------------------------------------------------------------------------
(* One block per active tank *)

\* a variant that keeps the stripped text whole
clean_tank_number_raw(val) == IF IsNa(val) THEN <<>> ELSE Strip(PyStr(val))

\* clean_tank_number: "" for NaN, else the digits of str(val).strip()
clean_tank_number(val) == IF IsNa(val) THEN <<>> ELSE SelectSeq(Strip(PyStr(val)), IsDigit)

\* a variant that renders the value's own text
format_capacity_raw(value) == PyStr(value)

\* format_capacity: the integer part with thousands separators, or the value's own text
format_capacity(value) == LET num == ToNumeric(value) IN IF IsNa(num) THEN PyStr(value) ELSE IF num.n < 0 THEN <<"-">> \o GroupThousands(DecNat(0 - num.n)) ELSE GroupThousands(DecNat(num.n))

\* a variant that takes only "Y" for true, as the release-detection columns do
is_truthy_Y(val) == Upper(Strip(PyStr(val))) = <<"Y">>

\* is_truthy
is_truthy(val) == Lower(Strip(PyStr(val))) \in {<<"y">>, <<"y", "e", "s">>, <<"t", "r", "u", "e">>, <<"t">>, <<"1">>, <<"x">>}

\* the columns of a filtered copy: clean_tank_number is appended when there is a tank number
copy_cols(df) == IF HasCol(df, col.tank_number) THEN Append(df.cols, col.clean_tank_number) ELSE df.cols

copy_row(df, r) == IF HasCol(df, col.tank_number) THEN Append(df.rows[r], StrV(clean_tank_number(Cell(df, r, col.tank_number)))) ELSE df.rows[r]

\* filtered[filtered["clean_tank_number"] == clean_num], or no row when that column is missing
rows_of_tank(df, rows, clean_num) == IF rows # <<>> /\ HasCol(df, col.tank_number) THEN SelectSeq(rows, LAMBDA r : clean_tank_number(Cell(df, r, col.tank_number)) = clean_num) ELSE <<>>

\* the value of a row's field, or "N/A" when the column is missing
field(df, r, c) == IF HasCol(df, c) THEN Cell(df, r, c) ELSE StrV(txt.NA)

\* Double Wall: the twelfth cell (Column L) of the first material row
double_wall(cols, vals) == IF Len(cols) > 11 /\ Upper(Strip(PyStr(vals[12]))) = <<"Y">> THEN txt.Yes ELSE txt.No

\* re.sub(r"^[\s:,-]+", "", s)
RECURSIVE strip_lead(_)
strip_lead(s) == IF s # <<>> /\ (IsSpace(Head(s)) \/ Head(s) \in {":", ",", "-"}) THEN strip_lead(Tail(s)) ELSE s

\* the label of one "pipe material..." column
material_name(c) == LET raw_name == strip_lead(Strip(SubSeq(c, Len(<<"p", "i", "p", "e", " ", "m", "a", "t", "e", "r", "i", "a", "l">>) + 1, Len(c)))) IN IF raw_name # <<>> THEN Title(raw_name) ELSE txt.Unknown

\* the positions, in column order, of the columns with a prefix whose flag is set
flag_columns(cols, flags, prefix) == SelectSeq([i \in 1..Len(cols) |-> i], LAMBDA i : StartsWith(Lower(cols[i]), prefix) /\ flags[i])

\* materials_detected of the first pipe row
materials_detected(cols, vals) == LET idx == flag_columns(cols, [i \in 1..Len(vals) |-> is_truthy(vals[i])], <<"p", "i", "p", "e", " ", "m", "a", "t", "e", "r", "i", "a", "l">>) IN [j \in 1..Len(idx) |-> material_name(cols[idx[j]])]

\* the legacy fallbacks when no material was detected: a fiberglass column, a cell
\* that says fiberglass, and at last a descriptive column
pipe_material_fallback(cols, vals) == IF \/ \E i \in 1..Len(cols) : Contains(Lower(cols[i]), <<"f", "i", "b", "e", "r", "g", "l", "a", "s", "s">>) /\ Lower(Strip(PyStr(vals[i]))) \in {<<"y">>, <<"y", "e", "s">>, <<"f", "i", "b", "e", "r", "g", "l", "a", "s", "s">>}
                                         \/ \E i \in 1..Len(cols) : Lower(Strip(PyStr(vals[i]))) = <<"f", "i", "b", "e", "r", "g", "l", "a", "s", "s">>
                                      THEN txt.Fiberglass_DW
                                      ELSE LET cands == SelectSeq(<<<<"p", "i", "p", "i", "n", "g", " ", "m", "a", "t", "e", "r", "i", "a", "l">>, <<"p", "i", "p", "e", " ", "m", "a", "t", "e", "r", "i", "a", "l">>, <<"p", "i", "p", "e", " ", "m", "a", "t", "e", "r", "i", "a", "l", "s">>>>, LAMBDA c : (\E i \in 1..Len(cols) : Lower(cols[i]) = c /\ cols[i] = c) /\ Strip(PyStr(vals[CHOOSE i \in 1..Len(cols) : cols[i] = c])) # <<>>)
                                           IN IF cands # <<>> THEN Strip(PyStr(vals[CHOOSE i \in 1..Len(cols) : cols[i] = cands[1]])) ELSE txt.Unknown

\* pipe_material as rendered: the detected materials joined, else the fallbacks, else "Unknown"
pipe_material(has_row, cols, vals) == IF ~has_row THEN txt.Unknown ELSE IF materials_detected(cols, vals) # <<>> THEN join_text(materials_detected(cols, vals), txt.comma) ELSE pipe_material_fallback(cols, vals)

rd_method_map == <<[k |-> <<"a", "u", "t", "o", "m", "a", "t", "i", "c", " ", "t", "a", "n", "k", " ", "g", "a", "u", "g", "i", "n", "g">>, v |-> <<"A", "u", "t", "o", "m", "a", "t", "i", "c", " ", "T", "a", "n", "k", " ", "G", "a", "u", "g", "i", "n", "g", " ", "(", "A", "T", "G", ")">>], [k |-> <<"i", "n", "t", "e", "r", "s", "t", "i", "t", "i", "a", "l", " ", "m", "o", "n", "i", "t", "o", "r", "i", "n", "g">>, v |-> <<"I", "n", "t", "e", "r", "s", "t", "i", "t", "i", "a", "l", " ", "M", "o", "n", "i", "t", "o", "r", "i", "n", "g">>], [k |-> <<"s", "t", "a", "t", "i", "s", "t", "i", "c", "a", "l", " ", "i", "n", "v", "e", "n", "t", "o", "r", "y", " ", "r", "e", "c", "o", "n", "c", "i", "l", "i", "a", "t", "i", "o", "n">>, v |-> <<"S", "t", "a", "t", "i", "s", "t", "i", "c", "a", "l", " ", "I", "n", "v", "e", "n", "t", "o", "r", "y", " ", "R", "e", "c", "o", "n", "c", "i", "l", "i", "a", "t", "i", "o", "n", " ", "(", "S", "I", "R", ")">>], [k |-> <<"t", "a", "n", "k", " ", "t", "i", "g", "h", "t", "n", "e", "s", "s", " ", "t", "e", "s", "t", "i", "n", "g">>, v |-> <<"T", "a", "n", "k", " ", "T", "i", "g", "h", "t", "n", "e", "s", "s", " ", "T", "e", "s", "t", "i", "n", "g">>], [k |-> <<"l", "i", "n", "e", " ", "t", "i", "g", "h", "t", "n", "e", "s", "s", " ", "t", "e", "s", "t", "i", "n", "g">>, v |-> <<"L", "i", "n", "e", " ", "T", "i", "g", "h", "t", "n", "e", "s", "s", " ", "T", "e", "s", "t", "i", "n", "g">>], [k |-> <<"v", "a", "p", "o", "r", " ", "m", "o", "n", "i", "t", "o", "r", "i", "n", "g">>, v |-> <<"V", "a", "p", "o", "r", " ", "M", "o", "n", "i", "t", "o", "r", "i", "n", "g">>], [k |-> <<"g", "r", "o", "u", "n", "d", "w", "a", "t", "e", "r", " ", "m", "o", "n", "i", "t", "o", "r", "i", "n", "g">>, v |-> <<"G", "r", "o", "u", "n", "d", "w", "a", "t", "e", "r", " ", "M", "o", "n", "i", "t", "o", "r", "i", "n", "g">>], [k |-> <<"i", "n", "v", "e", "n", "t", "o", "r", "y", " ", "c", "o", "n", "t", "r", "o", "l">>, v |-> <<"I", "n", "v", "e", "n", "t", "o", "r", "y", " ", "C", "o", "n", "t", "r", "o", "l">>], [k |-> <<"s", "e", "c", "o", "n", "d", "a", "r", "y", " ", "c", "o", "n", "t", "a", "i", "n", "m", "e", "n", "t">>, v |-> <<"S", "e", "c", "o", "n", "d", "a", "r", "y", " ", "C", "o", "n", "t", "a", "i", "n", "m", "e", "n", "t">>], [k |-> <<"v", "i", "s", "u", "a", "l", " ", "i", "n", "s", "p", "e", "c", "t", "i", "o", "n">>, v |-> <<"V", "i", "s", "u", "a", "l", " ", "I", "n", "s", "p", "e", "c", "t", "i", "o", "n">>], [k |-> <<"l", "i", "n", "e", " ", "l", "e", "a", "k", " ", "d", "e", "t", "e", "c", "t", "o", "r">>, v |-> <<"L", "i", "n", "e", " ", "L", "e", "a", "k", " ", "D", "e", "t", "e", "c", "t", "o", "r">>], [k |-> <<"p", "r", "e", "s", "s", "u", "r", "e", "/", "v", "a", "c", "u", "u", "m", " ", "m", "o", "n", "i", "t", "o", "r", "i", "n", "g">>, v |-> <<"P", "r", "e", "s", "s", "u", "r", "e", "/", "V", "a", "c", "u", "u", "m", " ", "M", "o", "n", "i", "t", "o", "r", "i", "n", "g">>], [k |-> <<"a", "u", "t", "o", "m", "a", "t", "i", "c", " ", "l", "i", "n", "e", " ", "l", "e", "a", "k", " ", "d", "e", "t", "e", "c", "t", "o", "r">>, v |-> <<"A", "u", "t", "o", "m", "a", "t", "i", "c", " ", "L", "i", "n", "e", " ", "L", "e", "a", "k", " ", "D", "e", "t", "e", "c", "t", "o", "r">>], [k |-> <<"c", "a", "t", "h", "o", "d", "i", "c", " ", "p", "r", "o", "t", "e", "c", "t", "i", "o", "n">>, v |-> <<"C", "a", "t", "h", "o", "d", "i", "c", " ", "P", "r", "o", "t", "e", "c", "t", "i", "o", "n">>], [k |-> <<"m", "a", "n", "u", "a", "l", " ", "t", "a", "n", "k", " ", "g", "a", "u", "g", "i", "n", "g">>, v |-> <<"M", "a", "n", "u", "a", "l", " ", "T", "a", "n", "k", " ", "G", "a", "u", "g", "i", "n", "g">>], [k |-> <<"m", "a", "n", "u", "a", "l", " ", "l", "i", "n", "e", " ", "l", "e", "a", "k", " ", "d", "e", "t", "e", "c", "t", "o", "r">>, v |-> <<"M", "a", "n", "u", "a", "l", " ", "L", "i", "n", "e", " ", "L", "e", "a", "k", " ", "D", "e", "t", "e", "c", "t", "o", "r">>], [k |-> <<"s", "t", "a", "t", "i", "s", "t", "i", "c", "a", "l", " ", "i", "n", "v", "e", "n", "t", "o", "r", "y", " ", "r", "e", "c", "o", "n", "c", "i", "l", "i", "a", "t", "i", "o", "n", " ", "(", "s", "i", "r", ")">>, v |-> <<"S", "t", "a", "t", "i", "s", "t", "i", "c", "a", "l", " ", "I", "n", "v", "e", "n", "t", "o", "r", "y", " ", "R", "e", "c", "o", "n", "c", "i", "l", "i", "a", "t", "i", "o", "n", " ", "(", "S", "I", "R", ")">>]>>

\* the label of one release-detection column: the mapped name, else the title-cased suffix
rd_label(c, prefix) == LET clean_name == Lower(Strip(SubSeq(c, Len(prefix) + 1, Len(c)))) IN IF \E i \in 1..Len(rd_method_map) : rd_method_map[i].k = clean_name THEN rd_method_map[CHOOSE i \in 1..Len(rd_method_map) : rd_method_map[i].k = clean_name].v ELSE Title(clean_name)

is_Y(val) == Upper(Strip(PyStr(val))) = <<"Y">>

\* extract_rd_methods_clean over the first release row of the tank
extract_rd_methods_clean(has_row, cols, vals, rd_type_prefix) == IF ~has_row THEN <<>> ELSE LET idx == flag_columns(cols, [i \in 1..Len(vals) |-> is_Y(vals[i])], rd_type_prefix) IN [j \in 1..Len(idx) |-> rd_label(cols[idx[j]], rd_type_prefix)]

\* a variant without the "Not Listed" default
rd_method_str_blank(methods) == join_text(methods, txt.comma)

\* ", ".join(methods) if methods else "Not Listed"
rd_method_str(methods) == IF methods # <<>> THEN join_text(methods, txt.comma) ELSE txt.Not_Listed

\* the block of the tank at row r of tanks
tank_block(r) == LET clean_num == IF HasCol(tanks, col.tank_number) THEN clean_tank_number(Cell(tanks, r, col.tank_number)) ELSE txt.NA
                     mrows == rows_of_tank(usttankmaterials, tank_materials_filtered, clean_num)
                     prows == rows_of_tank(ustpipe, pipe_filtered, clean_num)
                     rrows == rows_of_tank(ustpipe_release, release_filtered, clean_num)
                     pcols == copy_cols(ustpipe)
                     pvals == IF prows # <<>> THEN copy_row(ustpipe, prows[1]) ELSE <<>>
                     rcols == copy_cols(ustpipe_release)
                     rvals == IF rrows # <<>> THEN copy_row(ustpipe_release, rrows[1]) ELSE <<>>
                     tank_rd == extract_rd_methods_clean(rrows # <<>>, rcols, rvals, <<"t", "a", "n", "k", " ", "r", "d", " ">>)
                     pipe_rd == extract_rd_methods_clean(rrows # <<>>, rcols, rvals, <<"p", "i", "p", "e", " ", "r", "d", " ">>)
                 IN [row |-> r,
                     material_rows |-> mrows,
                     pipe_rows |-> prows,
                     release_rows |-> rrows,
                     tank_num |-> PyStr(field(tanks, r, col.tank_number)),
                     contents |-> PyStr(field(tanks, r, col.contents)),
                     capacity |-> format_capacity(field(tanks, r, col.capacity)),
                     install_date |-> PyStr(field(tanks, r, col.install_date)),
                     status |-> PyStr(field(tanks, r, col.tank_status)),
                     double_wall |-> IF mrows # <<>> THEN double_wall(copy_cols(usttankmaterials), copy_row(usttankmaterials, mrows[1])) ELSE txt.No,
                     materials_detected |-> IF prows # <<>> THEN materials_detected(pcols, pvals) ELSE <<>>,
                     pipe_material |-> pipe_material(prows # <<>>, pcols, pvals),
                     tank_rd_methods |-> tank_rd,
                     pipe_rd_methods |-> pipe_rd,
                     tank_rd_method_str |-> rd_method_str(tank_rd),
                     pipe_rd_method_str |-> rd_method_str(pipe_rd)]

\* one pass of  for idx, row in active_tanks.iterrows()
TankBlock == /\ pc = "tanks"
             /\ Len(out.blocks) < Len(active_tanks)
             /\ out' = [out EXCEPT !.blocks = Append(@, tank_block(active_tanks[Len(out.blocks) + 1]))]
             /\ UNCHANGED <<files, facility_input, debug_mode, tanks, owner, ustpipe, usttankmaterials, ustpipe_release, siteinfo, facility_col, tanks_filtered, candidate_fids, path, facility_id, owner_filtered, base_filtered, pipe_filtered, tank_materials_filtered, release_filtered, active_tanks, pc>>

\* the loop is exhausted: the run is over
Finish == /\ pc = "tanks"
          /\ Len(out.blocks) = Len(active_tanks)
          /\ out' = [out EXCEPT !.info = "summary"]
          /\ pc' = "done"
          /\ UNCHANGED <<files, facility_input, debug_mode, tanks, owner, ustpipe, usttankmaterials, ustpipe_release, siteinfo, facility_col, tanks_filtered, candidate_fids, path, facility_id, owner_filtered, base_filtered, pipe_filtered, tank_materials_filtered, release_filtered, active_tanks>>

Next == Load \/ Resolve \/ Choose \/ NotFound \/ Join \/ Summary \/ TankBlock \/ Finish

----------------------------------------------------------------------------
(* The inputs: uploaded files and a query.  A CSV column holds ints, or     *)
(* floats and NaN, or text and NaN with at least one cell that is no        *)
(* number (read_csv turns an all-numeric column into numbers); the cells    *)
(* of the pipe-materials sheet keep the type each was entered with.         *)

MaxTankRows == 2

MaxOwnerRows == 2

MaxPipeRows == 2

MaxFlagCols == 2

File(cols, rows) == [present |-> TRUE, cols |-> cols, rows |-> rows]

NoFile == [present |-> FALSE, cols |-> <<>>, rows |-> <<>>]

\* the non-empty sequences over S of length at most n
SeqsUpTo(S, n) == UNION {[1..k -> S] : k \in 1..n}

\* the dtype read_csv infers for a column leaves it in one of three shapes
csv_column_ok(vals) == \/ \A i \in 1..Len(vals) : vals[i].t = "int"
                       \/ \A i \in 1..Len(vals) : vals[i].t \in {"float", "nan"}
                       \/ /\ \A i \in 1..Len(vals) : vals[i].t \in {"str", "nan"}
                          /\ \E i \in 1..Len(vals) : vals[i].t = "str" /\ IsNa(ToNumeric(vals[i]))

\* a sheet column read by read_excel: whole numbers come as ints, so a column is all
\* ints, or floats with an empty cell among them, or it has text and holds no whole float
excel_column_ok(vals) == \/ \A i \in 1..Len(vals) : vals[i].t = "int"
                         \/ /\ \A i \in 1..Len(vals) : vals[i].t \in {"float", "nan"}
                            /\ \E i \in 1..Len(vals) : vals[i].t = "nan" \/ vals[i].d # 0
                         \/ /\ \E i \in 1..Len(vals) : vals[i].t = "str"
                            /\ \A i \in 1..Len(vals) : vals[i].t = "float" => vals[i].d # 0

CIU == StrV(<<"C", "U", "R", "R", " ", "I", "N", " ", "U", "S", "E">>)

CLOSED == StrV(<<"P", "E", "R", "M", " ", "O", "U", "T", " ", "O", "F", " ", "U", "S", "E">>)

\* Tanks of two facilities, 45 (tank 1 in use, tank 2 closed) and 7
BaseTanks == File(<<<<"F", "a", "c", "i", "l", "i", "t", "y", " ", "I", "D">>, <<"F", "a", "c", "i", "l", "i", "t", "y", " ", "N", "a", "m", "e">>, <<"T", "a", "n", "k", " ", "N", "u", "m", "b", "e", "r">>, <<"T", "a", "n", "k", " ", "S", "t", "a", "t", "u", "s">>, <<"C", "a", "p", "a", "c", "i", "t", "y">>>>, <<
    <<IntV(45), StrV(<<"s", "h", "e", "l", "l">>), IntV(1), CIU, IntV(12000)>>,
    <<IntV(45), StrV(<<"s", "h", "e", "l", "l">>), IntV(2), CLOSED, IntV(500)>>,
    <<IntV(7), StrV(<<"b", "p", " ", "6", "6">>), IntV(1), CIU, IntV(8000)>> >>)

BaseOwner == File(<<<<"f", "a", "c", "i", "l", "i", "t", "y", " ", "i", "d">>, <<"n", "a", "m", "e">>, <<"o", "w", "n", "e", "r", " ", "n", "a", "m", "e">>, <<"o", "w", "n", "e", "r", " ", "i", "d">>>>, <<
    <<IntV(45), StrV(<<"s", "h", "e", "l", "l">>), StrV(<<"j", "o", "e">>), IntV(100)>>,
    <<IntV(7), StrV(<<"b", "p", " ", "6", "6">>), StrV(<<"a", "n", "n">>), IntV(200)>> >>)

BasePipe == File(<<<<"F", "a", "c", "i", "l", "i", "t", "y", " ", " ", "I", "D">>, <<"t", "a", "n", "k", " ", "n", "u", "m", "b", "e", "r">>, <<"t", "a", "n", "k", " ", "s", "t", "a", "t", "u", "s">>, <<"p", "i", "p", "e", " ", "m", "a", "t", "e", "r", "i", "a", "l", " ", "s", "t", "e", "e", "l">>, <<"p", "i", "p", "e", " ", "m", "a", "t", "e", "r", "i", "a", "l", " ", "f", "i", "b", "e", "r", "g", "l", "a", "s", "s">>>>, <<
    <<IntV(45), IntV(1), CIU, StrV(<<"Y">>), StrV(<<"N">>)>>,
    <<IntV(7), IntV(1), CIU, StrV(<<"N">>), StrV(<<"Y">>)>> >>)

BaseMaterials == File(<<<<"f", "a", "c", "i", "l", "i", "t", "y", " ", "i", "d">>, <<"t", "a", "n", "k", " ", "n", "u", "m", "b", "e", "r">>>>, << <<IntV(45), IntV(1)>>, <<IntV(7), IntV(1)>> >>)

BaseRelease == File(<<<<"f", "a", "c", "i", "l", "i", "t", "y", " ", "i", "d">>, <<"t", "a", "n", "k", " ", "n", "u", "m", "b", "e", "r">>, <<"t", "a", "n", "k", " ", "r", "d", " ", "a", "u", "t", "o", "m", "a", "t", "i", "c", " ", "t", "a", "n", "k", " ", "g", "a", "u", "g", "i", "n", "g">>, <<"p", "i", "p", "e", " ", "r", "d", " ", "l", "i", "n", "e", " ", "l", "e", "a", "k", " ", "d", "e", "t", "e", "c", "t", "o", "r">>>>, <<
    <<IntV(45), IntV(1), StrV(<<"Y">>), StrV(<<"N">>)>>,
    <<IntV(7), IntV(1), StrV(<<"N">>), StrV(<<"Y">>)>> >>)

BaseFiles == [tanks |-> BaseTanks, owner |-> BaseOwner, pipe |-> BasePipe, materials |-> BaseMaterials, release |-> BaseRelease, siteinfo |-> NoFile]

\* the state before a run: nothing loaded, nothing rendered
Blank == /\ tanks = EmptyDF /\ owner = EmptyDF /\ ustpipe = EmptyDF /\ usttankmaterials = EmptyDF /\ ustpipe_release = EmptyDF /\ siteinfo = EmptyDF
         /\ facility_col = [tanks |-> None, owner |-> None, pipe |-> None, materials |-> None, release |-> None, site |-> None]
         /\ tanks_filtered = <<>> /\ candidate_fids = <<>> /\ path = {}
         /\ facility_id = NaN /\ owner_filtered = <<>> /\ base_filtered = NoBase /\ pipe_filtered = <<>>
         /\ tank_materials_filtered = <<>> /\ release_filtered = <<>> /\ active_tanks = <<>>
         /\ out = NoOut /\ pc = "start"

\* Tanks varies: the type of its facility-id column, its ids and statuses; the i-th row
\* is tank i
TankFidPool(kind) == CASE kind = "int" -> {IntV(45), IntV(7)} [] kind = "float" -> {FloatV(45, 0), FloatV(7, 0)} [] OTHER -> {StrV(<<"4", "5", ".", "0">>), StrV(<<"4", "5">>), StrV(<<"A", "1">>)}

TankNames == <<StrV(<<"j", "o", "e", " ", "6", "6">>), StrV(<<"m", "o", "e">>), StrV(<<"a", "n", "n", " ", "6", "6">>), StrV(<<"b", "o", "b">>)>>

tanks_file(rows, hasStatus) == IF hasStatus THEN File(<<<<"F", "a", "c", "i", "l", "i", "t", "y", " ", "I", "D">>, <<"F", "a", "c", "i", "l", "i", "t", "y", " ", "N", "a", "m", "e">>, <<"T", "a", "n", "k", " ", "N", "u", "m", "b", "e", "r">>, <<"T", "a", "n", "k", " ", "S", "t", "a", "t", "u", "s">>, <<"C", "a", "p", "a", "c", "i", "t", "y">>>>, [i \in 1..Len(rows) |-> <<rows[i][1], TankNames[i], IntV(i), rows[i][2], IntV(12000)>>])
                               ELSE File(<<<<"F", "a", "c", "i", "l", "i", "t", "y", " ", "I", "D">>, <<"F", "a", "c", "i", "l", "i", "t", "y", " ", "N", "a", "m", "e">>, <<"T", "a", "n", "k", " ", "N", "u", "m", "b", "e", "r">>, <<"C", "a", "p", "a", "c", "i", "t", "y">>>>, [i \in 1..Len(rows) |-> <<rows[i][1], TankNames[i], IntV(i), IntV(12000)>>])

InitTanks == \E kind \in {"int", "float", "str"}, q \in {<<"4", "5">>, <<"6", "6">>, <<"j", "o", "e">>} :
               \E rows \in SeqsUpTo(TankFidPool(kind) \X {CIU, CLOSED}, MaxTankRows) :
                 /\ csv_column_ok([i \in 1..Len(rows) |-> rows[i][1]])
                 /\ files = [BaseFiles EXCEPT !.tanks = tanks_file(rows, TRUE)]
                 /\ facility_input = q

\* ... and Tanks without a status column
InitNoStatus == \E rows \in SeqsUpTo({IntV(45), IntV(7)} \X {CIU}, MaxTankRows) :
                  /\ files = [BaseFiles EXCEPT !.tanks = tanks_file(rows, FALSE)]
                  /\ facility_input = <<"4", "5">>

\* Owners and SiteInfo vary: which facilities the rows a text query matches belong to
\* (facility 9 has no tank)
owner_file(rows) == File(<<<<"f", "a", "c", "i", "l", "i", "t", "y", " ", "i", "d">>, <<"n", "a", "m", "e">>, <<"o", "w", "n", "e", "r", " ", "i", "d">>>>, [i \in 1..Len(rows) |-> <<rows[i][1], rows[i][2], IntV(100 + i)>>])

SiteFiles == {NoFile,
              File(<<<<"F", "a", "c", "i", "l", "i", "t", "y", " ", "I", "D">>, <<"N", "a", "m", "e">>>>, << <<IntV(45), StrV(<<"j", "o", "e", "'", "s">>)>> >>),
              File(<<<<"F", "a", "c", "i", "l", "i", "t", "y", " ", "I", "D">>, <<"N", "a", "m", "e">>>>, << <<IntV(9), StrV(<<"j", "o", "e", "'", "s">>)>> >>),
              File(<<<<"F", "a", "c", "i", "l", "i", "t", "y", " ", "I", "D">>, <<"N", "a", "m", "e">>>>, << <<IntV(7), StrV(<<"j", "o", "e", "'", "s">>)>>, <<IntV(45), StrV(<<"j", "o", "e", "y">>)>> >>)}

InitText == \E rows \in SeqsUpTo({IntV(45), IntV(7), IntV(9)} \X {StrV(<<"j", "o", "e">>), StrV(<<"a", "n", "n">>)}, MaxOwnerRows), site \in SiteFiles :
              /\ files = [BaseFiles EXCEPT !.owner = owner_file(rows), !.siteinfo = site]
              /\ facility_input = <<"J", "O", "E">>

\* The facility id takes each representation in Tanks (the second row only fixes the
\* column's type), and the pipe-materials rows vary in id
FidForms == {<<IntV(45), IntV(7)>>, <<FloatV(45, 0), NaN>>, <<StrV(<<"4", "5">>), StrV(<<"A", "1">>)>>, <<StrV(<<"0", "4", "5">>), StrV(<<"A", "1">>)>>, <<StrV(<<"4", "5", ".", "0">>), StrV(<<"A", "1">>)>>, <<StrV(<<"4", "-", "5">>), StrV(<<"A", "1">>)>>}

tanks_of(form) == File(<<<<"F", "a", "c", "i", "l", "i", "t", "y", " ", "I", "D">>, <<"F", "a", "c", "i", "l", "i", "t", "y", " ", "N", "a", "m", "e">>, <<"T", "a", "n", "k", " ", "N", "u", "m", "b", "e", "r">>, <<"T", "a", "n", "k", " ", "S", "t", "a", "t", "u", "s">>, <<"C", "a", "p", "a", "c", "i", "t", "y">>>>, <<
    <<form[1], StrV(<<"j", "o", "e", " ", "6", "6">>), IntV(1), CIU, IntV(12000)>>,
    <<form[2], StrV(<<"m", "o", "e">>), IntV(1), CIU, IntV(500)>> >>)

pipe_file(rows) == File(<<<<"F", "a", "c", "i", "l", "i", "t", "y", " ", "I", "D">>, <<"T", "a", "n", "k", " ", "N", "u", "m", "b", "e", "r">>, <<"T", "a", "n", "k", " ", "S", "t", "a", "t", "u", "s">>, <<"P", "i", "p", "e", " ", "M", "a", "t", "e", "r", "i", "a", "l", " ", "S", "t", "e", "e", "l">>>>, [i \in 1..Len(rows) |-> <<rows[i][1], IntV(1), rows[i][2], StrV(<<"Y">>)>>])

InitPipe == \E form \in FidForms :
              \E rows \in SeqsUpTo({IntV(45), FloatV(45, 0), NaN, StrV(<<"0", "4", "5">>), StrV(<<"4", "-", "5">>), IntV(7)} \X {CIU}, MaxPipeRows) :
                /\ excel_column_ok([i \in 1..Len(rows) |-> rows[i][1]])
                /\ files = [BaseFiles EXCEPT !.tanks = tanks_of(form), !.pipe = pipe_file(rows)]
                /\ facility_input = <<"j", "o", "e">>

\* ... and in status
InitPipeStatus == \E rows \in SeqsUpTo({IntV(45), IntV(7)} \X {CIU, CLOSED}, MaxPipeRows) :
                    /\ files = [BaseFiles EXCEPT !.pipe = pipe_file(rows)]
                    /\ facility_input = <<"4", "5">>

\* ... and the facility-id column of Owners, of tank materials or of release detection
\* takes each type a CSV column can have while the other two hold ints
DetailForms == {<<IntV(45), IntV(7)>>, <<FloatV(45, 0), NaN>>, <<StrV(<<"4", "5">>), StrV(<<"A", "1">>)>>, <<StrV(<<"0", "4", "5">>), StrV(<<"A", "1">>)>>, <<StrV(<<"4", "5", ".", "0">>), StrV(<<"A", "1">>)>>}

detail_form(d, k, table) == IF k = table THEN d ELSE <<IntV(45), IntV(7)>>

InitDetail == \E form \in FidForms, d \in DetailForms, k \in {"owner", "materials", "release"} :
                /\ files = [BaseFiles EXCEPT !.tanks = tanks_of(form),
                                             !.owner = File(<<<<"f", "a", "c", "i", "l", "i", "t", "y", " ", "i", "d">>, <<"n", "a", "m", "e">>, <<"o", "w", "n", "e", "r", " ", "i", "d">>>>, << <<detail_form(d, k, "owner")[1], StrV(<<"s", "h", "e", "l", "l">>), IntV(100)>>, <<detail_form(d, k, "owner")[2], StrV(<<"b", "p">>), IntV(200)>> >>),
                                             !.materials = File(<<<<"f", "a", "c", "i", "l", "i", "t", "y", " ", "i", "d">>, <<"t", "a", "n", "k", " ", "n", "u", "m", "b", "e", "r">>>>, << <<detail_form(d, k, "materials")[1], IntV(1)>>, <<detail_form(d, k, "materials")[2], IntV(1)>> >>),
                                             !.release = File(<<<<"f", "a", "c", "i", "l", "i", "t", "y", " ", "i", "d">>, <<"t", "a", "n", "k", " ", "n", "u", "m", "b", "e", "r">>, <<"t", "a", "n", "k", " ", "r", "d", " ", "v", "a", "p", "o", "r", " ", "m", "o", "n", "i", "t", "o", "r", "i", "n", "g">>>>, << <<detail_form(d, k, "release")[1], IntV(1), StrV(<<"Y">>)>>, <<detail_form(d, k, "release")[2], IntV(1), StrV(<<"Y">>)>> >>)]
                /\ facility_input = <<"j", "o", "e">>

\* The flag columns of the pipe row of facility 45, tank 1, vary in name, order and value
PipeFlagNames == {<<"p", "i", "p", "e", " ", "m", "a", "t", "e", "r", "i", "a", "l", " ", "s", "t", "e", "e", "l">>, <<"P", "i", "p", "e", " ", "M", "a", "t", "e", "r", "i", "a", "l", ":", " ", "C", "u">>, <<"p", "i", "p", "e", " ", "m", "a", "t", "e", "r", "i", "a", "l">>, <<"p", "i", "p", "i", "n", "g", " ", "m", "a", "t", "e", "r", "i", "a", "l">>}

PipeFlagVals == {StrV(<<" ", "Y", "e", "s", " ">>), StrV(<<"N">>), StrV(<<"f", "i", "b", "e", "r", "g", "l", "a", "s", "s">>)}

\* the sequences of at most n flags with distinct names
FlagSeqs(names, vals, n) == {fs \in SeqsUpTo(names \X vals, n) : \A i, j \in 1..Len(fs) : i # j => fs[i][1] # fs[j][1]}

InitPipeFlags == \E fs \in FlagSeqs(PipeFlagNames, PipeFlagVals, MaxFlagCols) :
                   /\ files = [BaseFiles EXCEPT !.pipe = File(<<<<"f", "a", "c", "i", "l", "i", "t", "y", " ", "i", "d">>, <<"t", "a", "n", "k", " ", "n", "u", "m", "b", "e", "r">>>> \o [i \in 1..Len(fs) |-> fs[i][1]], << <<IntV(45), IntV(1)>> \o [i \in 1..Len(fs) |-> fs[i][2]] >>)]
                   /\ facility_input = <<"4", "5">>

\* ... and so do the flag columns of its release-detection row
ReleaseFlagNames == {<<"t", "a", "n", "k", " ", "r", "d", " ", "v", "a", "p", "o", "r", " ", "m", "o", "n", "i", "t", "o", "r", "i", "n", "g">>, <<"T", "a", "n", "k", " ", "R", "D", " ", "o", "t", "h", "e", "r">>, <<"p", "i", "p", "e", " ", "r", "d", " ", "l", "i", "n", "e", " ", "l", "e", "a", "k", " ", "d", "e", "t", "e", "c", "t", "o", "r">>, <<"p", "i", "p", "e", " ", "r", "d">>}

ReleaseFlagVals == {StrV(<<" ", "y", " ">>), StrV(<<"N">>), StrV(<<"y", "e", "s">>)}

InitReleaseFlags == \E fs \in FlagSeqs(ReleaseFlagNames, ReleaseFlagVals, MaxFlagCols) :
                      /\ files = [BaseFiles EXCEPT !.release = File(<<<<"f", "a", "c", "i", "l", "i", "t", "y", " ", "i", "d">>, <<"t", "a", "n", "k", " ", "n", "u", "m", "b", "e", "r">>>> \o [i \in 1..Len(fs) |-> fs[i][1]], << <<IntV(45), IntV(1)>> \o [i \in 1..Len(fs) |-> fs[i][2]] >>)]
                      /\ facility_input = <<"4", "5">>

\* One of the five uploads is missing, or a table is empty, or there is no query
InitGate == \E f \in {"tanks", "owner", "pipe", "materials", "release"}, file \in {NoFile, File(<<<<"f", "a", "c", "i", "l", "i", "t", "y", " ", "i", "d">>>>, <<>>)}, q \in {<<"4", "5">>, <<>>} :
              /\ files = [BaseFiles EXCEPT ![f] = file]
              /\ facility_input = q

\* The tank numbers vary in form: those of the two tanks of facility 45 in Tanks, and
\* those of its two rows in one of the pipe, tank-materials and release tables
TankNumberForms == {<<IntV(1), IntV(2)>>, <<StrV(<<"R", "1">>), StrV(<<"2">>)>>, <<StrV(<<"1", "M">>), NaN>>, <<FloatV(1, 0), NaN>>}

DetailNumberForms == {<<IntV(1), IntV(2)>>, <<StrV(<<"R", "1">>), StrV(<<"1", "M">>)>>, <<StrV(<<"1">>), StrV(<<"T", "-", "2">>)>>, <<StrV(<<"A">>), NaN>>, <<FloatV(1, 0), NaN>>, <<IntV(1), StrV(<<"R", "1">>)>>}

numbers_file(k, table, d) == IF k = "pipe" THEN File(<<<<"f", "a", "c", "i", "l", "i", "t", "y", " ", "i", "d">>, <<"t", "a", "n", "k", " ", "n", "u", "m", "b", "e", "r">>, <<"p", "i", "p", "e", " ", "m", "a", "t", "e", "r", "i", "a", "l", " ", "s", "t", "e", "e", "l">>>>, IF k = table THEN << <<IntV(45), d[1], StrV(<<"Y">>)>>, <<IntV(45), d[2], StrV(<<"Y">>)>> >> ELSE << <<IntV(45), IntV(1), StrV(<<"Y">>)>> >>)
                             ELSE IF k = "materials" THEN File(<<<<"f", "a", "c", "i", "l", "i", "t", "y", " ", "i", "d">>, <<"t", "a", "n", "k", " ", "n", "u", "m", "b", "e", "r">>>>, IF k = table THEN << <<IntV(45), d[1]>>, <<IntV(45), d[2]>> >> ELSE << <<IntV(45), IntV(1)>> >>)
                             ELSE File(<<<<"f", "a", "c", "i", "l", "i", "t", "y", " ", "i", "d">>, <<"t", "a", "n", "k", " ", "n", "u", "m", "b", "e", "r">>, <<"t", "a", "n", "k", " ", "r", "d", " ", "v", "a", "p", "o", "r", " ", "m", "o", "n", "i", "t", "o", "r", "i", "n", "g">>>>, IF k = table THEN << <<IntV(45), d[1], StrV(<<"Y">>)>>, <<IntV(45), d[2], StrV(<<"Y">>)>> >> ELSE << <<IntV(45), IntV(1), StrV(<<"Y">>)>> >>)

InitTankNumbers == \E form \in TankNumberForms, d \in DetailNumberForms, table \in {"pipe", "materials", "release"} :
                     /\ IF table = "pipe" THEN excel_column_ok(d) ELSE csv_column_ok(d)
                     /\ files = [BaseFiles EXCEPT !.tanks = File(<<<<"F", "a", "c", "i", "l", "i", "t", "y", " ", "I", "D">>, <<"F", "a", "c", "i", "l", "i", "t", "y", " ", "N", "a", "m", "e">>, <<"T", "a", "n", "k", " ", "N", "u", "m", "b", "e", "r">>, <<"T", "a", "n", "k", " ", "S", "t", "a", "t", "u", "s">>, <<"C", "a", "p", "a", "c", "i", "t", "y">>>>, << <<IntV(45), StrV(<<"s", "h", "e", "l", "l">>), form[1], CIU, IntV(12000)>>, <<IntV(45), StrV(<<"s", "h", "e", "l", "l">>), form[2], CIU, IntV(500)>> >>),
                                                  !.pipe = numbers_file("pipe", table, d),
                                                  !.materials = numbers_file("materials", table, d),
                                                  !.release = numbers_file("release", table, d)]
                     /\ facility_input = <<"4", "5">>

\* The name of the facility-id column of one table varies: a regex match, a partial
\* match, the site-id fallback, or no match at all; the sheet has a second column that
\* the regexes match
FacColNames == {<<"F", "A", "C", "I", "L", "I", "T", "Y", "_", "I", "D">>, <<"F", "a", "c", "i", "l", "i", "t", "y", "I", "d", "N", "u", "m", "b", "e", "r">>, <<"S", "i", "t", "e", " ", "I", "D">>, <<"L", "o", "c", "a", "t", "i", "o", "n">>}

columns_file(k, name) == CASE k = "tanks" -> File(<<name>> \o Tail(BaseTanks.cols), BaseTanks.rows)
                           [] k = "owner" -> File(<<name>> \o Tail(BaseOwner.cols), BaseOwner.rows)
                           [] k = "pipe" -> File(<<name>> \o Tail(BasePipe.cols) \o <<<<"F", "a", "c", "-", "N", "o">>>>, [i \in 1..Len(BasePipe.rows) |-> Append(BasePipe.rows[i], IntV(i))])
                           [] k = "materials" -> File(<<name>> \o Tail(BaseMaterials.cols), BaseMaterials.rows)
                           [] k = "release" -> File(<<name>> \o Tail(BaseRelease.cols), BaseRelease.rows)
                           [] OTHER -> File(<<name, <<"N", "a", "m", "e">>>>, << <<IntV(45), StrV(<<"s", "h", "e", "l", "l">>)>> >>)

InitColumns == \E k \in {"tanks", "owner", "pipe", "materials", "release", "siteinfo"}, name \in FacColNames, q \in {<<"4", "5">>, <<"s", "h", "e", "l", "l">>} :
                 /\ files = [BaseFiles EXCEPT ![k] = columns_file(k, name)]
                 /\ facility_input = q

\* The status of the two tanks of facility 45 varies in letter case, with tank numbers
\* that are numbers or text next to a blank, and capacities that are ints, floats next
\* to a blank, or text with and without a number in it
StatusForms == {CIU, StrV(<<"c", "u", "r", "r", " ", "i", "n", " ", "u", "s", "e">>), StrV(<<"C", "u", "r", "r", " ", "I", "n", " ", "U", "s", "e">>), CLOSED}

CapacityForms == {<<IntV(12000), IntV(500)>>, <<FloatV(1234567, 5), NaN>>, <<StrV(<<"1", "2", "0", "0", "0">>), StrV(<<"u", "n", "k", "n", "o", "w", "n">>)>>, <<StrV(<<"1", ",", "5", "0", "0">>), StrV(<<"1", "2", " ", "g", "a", "l">>)>>}

InitStatusCase == \E s1 \in StatusForms, s2 \in StatusForms, form \in {<<IntV(1), IntV(2)>>, <<StrV(<<"1", "M">>), NaN>>}, cap \in CapacityForms :
                    /\ files = [BaseFiles EXCEPT !.tanks = File(<<<<"F", "a", "c", "i", "l", "i", "t", "y", " ", "I", "D">>, <<"F", "a", "c", "i", "l", "i", "t", "y", " ", "N", "a", "m", "e">>, <<"T", "a", "n", "k", " ", "N", "u", "m", "b", "e", "r">>, <<"T", "a", "n", "k", " ", "S", "t", "a", "t", "u", "s">>, <<"C", "a", "p", "a", "c", "i", "t", "y">>>>, << <<IntV(45), StrV(<<"s", "h", "e", "l", "l">>), form[1], s1, cap[1]>>, <<IntV(45), StrV(<<"s", "h", "e", "l", "l">>), form[2], s2, cap[2]>> >>)]
                    /\ facility_input = <<"4", "5">>

\* The facility ids of the two rows of the pipe sheet mix numbers, text and blanks
DebugSheetIds == {<<IntV(45), IntV(45)>>, <<NaN, StrV(<<"0", "4", "5">>)>>, <<IntV(45), StrV(<<"4", "-", "5">>)>>, <<FloatV(45, 0), NaN>>}

InitDebugSheet == \E ids \in DebugSheetIds :
                    /\ files = [BaseFiles EXCEPT !.pipe = pipe_file(<< <<ids[1], CIU>>, <<ids[2], CIU>> >>)]
                    /\ facility_input = <<"4", "5">>

\* The tank-materials table has a double-wall flag for tank 1 of facility 45: in a column
\* named 'Double Walled' that is the third of three, or in the twelfth column (Column L)
\* whatever its name
materials_file(named, v) == IF named THEN File(<<<<"f", "a", "c", "i", "l", "i", "t", "y", " ", "i", "d">>, <<"t", "a", "n", "k", " ", "n", "u", "m", "b", "e", "r">>, <<"D", "o", "u", "b", "l", "e", " ", "W", "a", "l", "l", "e", "d">>>>, << <<IntV(45), IntV(1), v>> >>)
                            ELSE File(<<<<"f", "a", "c", "i", "l", "i", "t", "y", " ", "i", "d">>, <<"t", "a", "n", "k", " ", "n", "u", "m", "b", "e", "r">>>> \o [i \in 1..9 |-> <<"c", DigitChars[i + 1]>>] \o <<<<"C", "o", "l", "u", "m", "n", " ", "L">>>>, << <<IntV(45), IntV(1)>> \o [i \in 1..9 |-> IntV(0)] \o <<v>> >>)

InitDoubleWall == \E named \in BOOLEAN, v \in {StrV(<<"Y">>), StrV(<<" ", "y", " ">>), StrV(<<"N">>)} :
                    /\ files = [BaseFiles EXCEPT !.materials = materials_file(named, v)]
                    /\ facility_input = <<"4", "5">>

\* The pipe sheet has no facility-id column: its rows are keyed by owner id (the owner
\* of facility 45 has the id 100; 45 and 7 are the ids of other owners)
InitOwnerIdSheet == \E o1 \in {IntV(45), IntV(100), IntV(7)}, o2 \in {IntV(45), IntV(100), IntV(7)} :
                      /\ files = [BaseFiles EXCEPT !.pipe = File(<<<<"O", "w", "n", "e", "r", " ", "I", "D">>, <<"T", "a", "n", "k", " ", "N", "u", "m", "b", "e", "r">>, <<"P", "i", "p", "e", " ", "M", "a", "t", "e", "r", "i", "a", "l", " ", "S", "t", "e", "e", "l">>>>, << <<o1, IntV(1), StrV(<<"Y">>)>>, <<o2, IntV(2), StrV(<<"Y">>)>> >>)]
                      /\ facility_input = <<"4", "5">>

\* The query holds a character that a regular expression reads as more than itself
PatternQueries == {<<"b", "p", " ", "6", "6">>, <<"b", "p", ".", "6", "6">>, <<"S", ".", "E", "L", "L">>, <<"s", "h", "e", "l", "l", "(">>, <<"b", ".">>}

InitPattern == \E q \in PatternQueries : files = BaseFiles /\ facility_input = q

\* Two facilities whose names share a part, which is the query
InitSharedName == \E s \in {CIU, CLOSED}, q \in {<<"o", "e">>, <<"M", "O", "E">>} :
                    /\ files = [BaseFiles EXCEPT !.tanks = tanks_file(<<<<IntV(45), s>>, <<IntV(7), CIU>>>>, TRUE)]
                    /\ facility_input = q

\* Owners holds the facility ids as integers and SiteInfo as text (one of its ids is no
\* number), and both match the query under the same name
InitMixedIds == \E n \in {StrV(<<"j", "o", "e">>), StrV(<<"j", "o", "e", "y">>)} :
                  /\ files = [BaseFiles EXCEPT !.owner = owner_file(<<<<IntV(45), StrV(<<"j", "o", "e">>)>>, <<IntV(7), StrV(<<"j", "o", "e">>)>>>>),
                                               !.siteinfo = File(<<<<"F", "a", "c", "i", "l", "i", "t", "y", " ", "I", "D">>, <<"N", "a", "m", "e">>>>, <<<<StrV(<<"4", "5">>), n>>, <<StrV(<<"A", "1">>), StrV(<<"j", "o", "e">>)>>>>)]
                  /\ facility_input = <<"j", "o", "e">>

\* Debug Mode is off or on for the inputs whose number does not grow with the bounds, and
\* off for the others
Init == /\ Blank
        /\ \/ debug_mode = FALSE /\ (InitTanks \/ InitNoStatus \/ InitText \/ InitPipe \/ InitPipeStatus \/ InitPipeFlags \/ InitReleaseFlags)
           \/ debug_mode \in BOOLEAN /\ (InitDetail \/ InitGate \/ InitTankNumbers \/ InitColumns \/ InitStatusCase \/ InitDebugSheet \/ InitDoubleWall \/ InitOwnerIdSheet \/ InitPattern \/ InitSharedName \/ InitMixedIds)

Spec == Init /\ [][Next]_vars

----------------------------------------------------------------------------
(* Properties *)

\* the run passed the gate: a query, the five uploads, and no empty table
searching == inputs_given /\ pc # "start" /\ empty_tables(tanks, owner, usttankmaterials, ustpipe_release) = {}

\* the run is over and rendered a facility summary
summarised == pc = "done" /\ out.info = "summary"

\* the Tanks rows whose facility id is the number n (held as an int or as a float)
rows_of_number(n) == SelectSeq(RowIdx(tanks), LAMBDA r : Cell(tanks, r, col.facility_id).t \in {"int", "float"} /\ Cell(tanks, r, col.facility_id).n = n /\ Cell(tanks, r, col.facility_id).d = 0)

\* the status of a Tanks row is exactly 'CURR IN USE'
in_use(r) == HasCol(tanks, col.tank_status) /\ Cell(tanks, r, col.tank_status) = CIU

\* the Tanks rows the blocks rendered so far were made from
block_rows == [i \in 1..Len(out.blocks) |-> out.blocks[i].row]

\* the query is the decimal text of a natural number
decimal_query == AllDigits(facility_input) /\ facility_input = Dec(NatOf(facility_input))

\* the facility was resolved and the detail tables were joined to it
joined == pc \in {"joined", "tanks"} \/ summarised

\* every row of df whose facility id has the digits of the resolved id is among rows
digits_rows_in(df, rows) == \A r \in 1..Len(df.rows) : (HasCol(df, col.facility_id) /\ digits_only(Cell(df, r, col.facility_id)) = digits_only(facility_id)) => \E j \in 1..Len(rows) : rows[j] = r

\* C1: for each of the four detail tables, every row whose facility id has the same
\* digits-only form as the resolved facility id is in the rows joined to the facility,
\* whatever the representation of the two values.
C1_SameDigitsJoined == (joined /\ digits_only(facility_id) # <<>>)
                         => /\ digits_rows_in(owner, owner_filtered)
                            /\ digits_rows_in(ustpipe, base_filtered.rows)
                            /\ digits_rows_in(usttankmaterials, tank_materials_filtered)
                            /\ digits_rows_in(ustpipe_release, release_filtered)

\* the first non-empty of a list of match sets, or no row
first_nonempty(ms) == IF \E i \in 1..Len(ms) : ms[i] # <<>> THEN ms[CHOOSE i \in 1..Len(ms) : ms[i] # <<>> /\ \A j \in 1..(i - 1) : ms[j] = <<>>] ELSE <<>>

\* C2: in the pipe-materials facility-id join the joined rows are the match set of the
\* first non-empty strategy in the order digits-only, numeric, normalized-string,
\* raw-string; a later strategy never replaces a non-empty earlier result.
C2_FirstStrategyWins == (joined /\ HasCol(ustpipe, col.facility_id) /\ mask_clean(ustpipe, facility_id) # <<>>)
                          => base_filtered = Some(first_nonempty(<<mask_clean(ustpipe, facility_id), mask_num(ustpipe, col.facility_id, facility_id), mask_norm(ustpipe, col.facility_id, facility_id), mask_str(ustpipe, col.facility_id, facility_id)>>))

\* C3: when Tanks stores a facility id as the text 'n.0' and the query is the text 'n',
\* the run ends with the summary of that facility, not with 'no facility found'.
C3_FloatTextIdResolves == (searching /\ pc = "done" /\ decimal_query /\ HasCol(tanks, col.facility_id) /\ \E r \in 1..Len(tanks.rows) : Cell(tanks, r, col.facility_id) = StrV(facility_input \o <<".", "0">>))
                            => (out.info = "summary" /\ out.summary[1].facility_id = facility_input \o <<".", "0">>)

\* C4: when the query parses as an integer and the exact id match selects no Tanks row,
\* resolution goes on with the text searches exactly as for a query that is no integer.
C4_IntegerQueryFallsBack == (searching /\ pc = "done" /\ PyIntOk(StrV(facility_input)) /\ id_search(facility_input, tanks, facility_col) = <<>> /\ text_search(facility_input, tanks, owner, siteinfo, facility_col, name_search(facility_input, tanks)).tanks_filtered # <<>>)
                              => (out.info = "summary" /\ tanks_filtered = text_search(facility_input, tanks, owner, siteinfo, facility_col, name_search(facility_input, tanks)).tanks_filtered)

\* the ids the Owners search references or, when it references none, those the SiteInfo
\* search references
text_candidates == IF matched_fids(facility_input, tanks, owner, facility_col) # <<>> THEN matched_fids(facility_input, tanks, owner, facility_col)
                   ELSE IF ~df_empty(siteinfo) /\ facility_col.site # None THEN site_fids(facility_input, siteinfo, facility_col) ELSE <<>>

\* C5: when the Tanks name search matches nothing and the Owners and SiteInfo searches
\* reference two or more distinct facility ids, none is picked automatically: all of them
\* are offered, and the facility used is the one the caller chooses.
C5_NoAutoPick == (searching /\ pc \in {"resolved", "joined", "tanks", "done"} /\ ~PyIntOk(StrV(facility_input)) /\ name_search(facility_input, tanks) = <<>> /\ Len(text_candidates) >= 2)
                   => /\ Len(out.labels) = Len(text_candidates)
                      /\ out.chosen \in 1..Len(text_candidates)
                      /\ tanks_filtered = rows_equal(tanks, facility_col.tanks, text_candidates[out.chosen])

\* C6: the SiteInfo search is made only when the Owners search produced no candidate
\* facility id at all.
C6_SiteOnlyWithoutOwnerCandidates == "site" \in path => matched_fids(facility_input, tanks, owner, facility_col) = <<>>

\* C7: when the query is the decimal text of an integer that is the facility id of at
\* least one Tanks row, the run ends with the summary of that facility (the id shown is
\* that of the row, the query's digits with ".0" after them when Tanks holds floats),
\* and the blocks are, in order, exactly the rows of that facility whose status is
\* 'CURR IN USE', one block each.
C7_IdQueryResolves == (searching /\ decimal_query /\ HasCol(tanks, col.facility_id) /\ rows_of_number(NatOf(facility_input)) # <<>>)
                        => /\ pc # "raised"
                           /\ pc = "done" => /\ out.info = "summary"
                                             /\ Len(out.summary) = 1
                                             /\ out.summary[1].facility_id = (IF Cell(tanks, rows_of_number(NatOf(facility_input))[1], col.facility_id).t = "int" THEN facility_input ELSE facility_input \o <<".", "0">>)
                                             /\ block_rows = SelectSeq(rows_of_number(NatOf(facility_input)), in_use)

\* C7's case: an id query ended with a block for one row of the facility and none for
\* another row of the same facility that is not in use
C7_Witness == /\ summarised /\ decimal_query /\ Len(out.blocks) >= 1
              /\ Len(rows_of_number(NatOf(facility_input))) > Len(out.blocks)

\* C8: every block comes from a Tanks row of the resolved facility whose status is exactly
\* 'CURR IN USE'; and when no row of the resolved facility has that status, or Tanks has
\* no status column, the run still ends with the facility summary and no block at all.
C8_OnlyInUseBlocks == /\ \A i \in 1..Len(out.blocks) : in_use(out.blocks[i].row) /\ \E j \in 1..Len(tanks_filtered) : tanks_filtered[j] = out.blocks[i].row
                      /\ (searching /\ HasCol(tanks, col.facility_id) /\ tanks_filtered # <<>> /\ \A j \in 1..Len(tanks_filtered) : ~in_use(tanks_filtered[j]))
                           => /\ pc # "raised"
                              /\ pc = "tanks" => (Len(out.summary) = 1 /\ active_tanks = <<>>)
                              /\ pc = "done" => (out.info = "summary" /\ Len(out.summary) = 1 /\ out.blocks = <<>>)

\* C8's case: a facility was resolved, its Tanks rows have a status and none is in use,
\* and the run ended with the summary and no block
C8_Witness == /\ summarised /\ HasCol(tanks, col.tank_status) /\ tanks_filtered # <<>>
              /\ \A j \in 1..Len(tanks_filtered) : ~in_use(tanks_filtered[j])
              /\ out.blocks = <<>>

\* the digits of the tank number of a Tanks row, by which the detail rows are joined to it
tank_digits(r) == IF HasCol(tanks, col.tank_number) THEN clean_tank_number(Cell(tanks, r, col.tank_number)) ELSE txt.NA

\* the pipe-materials rows and the release-detection rows joined to the tank of a block
pipe_rows_of(b) == rows_of_tank(ustpipe, pipe_filtered, tank_digits(b.row))

release_rows_of(b) == rows_of_tank(ustpipe_release, release_filtered, tank_digits(b.row))

\* a cell is truthy: one of y, yes, true, t, 1, x, whatever its case and padding
truthy(v) == Lower(Strip(PyStr(v))) \in {<<"y">>, <<"y", "e", "s">>, <<"t", "r", "u", "e">>, <<"t">>, <<"1">>, <<"x">>}

\* the columns of df, in column order, that start with a prefix and are truthy in row r
truthy_flags(df, r, prefix) == SelectSeq([i \in 1..Len(df.cols) |-> i], LAMBDA i : StartsWith(df.cols[i], prefix) /\ truthy(df.rows[r][i]))

\* what follows the prefix in a column name, without the blanks around it
suffix(c, prefix) == Strip(SubSeq(c, Len(prefix) + 1, Len(c)))

\* the labels of the truthy 'pipe material' columns of row r, each made by Label
material_labels(r, Label(_)) == [j \in 1..Len(truthy_flags(ustpipe, r, <<"p", "i", "p", "e", " ", "m", "a", "t", "e", "r", "i", "a", "l">>)) |-> Label(suffix(ustpipe.cols[truthy_flags(ustpipe, r, <<"p", "i", "p", "e", " ", "m", "a", "t", "e", "r", "i", "a", "l">>)[j]], <<"p", "i", "p", "e", " ", "m", "a", "t", "e", "r", "i", "a", "l">>))]

\* C9 as claimed: the piping-material list of a block is one label per truthy column
\* whose name starts with 'pipe material', in column order, each label the title-cased
\* suffix of the column name.
C9_TitleCasedSuffix == \A i \in 1..Len(out.blocks) : pipe_rows_of(out.blocks[i]) # <<>>
                         => out.blocks[i].materials_detected = material_labels(pipe_rows_of(out.blocks[i])[1], Title)

\* the label of a suffix: leading blanks, ':', ',' and '-' go, the rest is title-cased,
\* and 'Unknown' stands for an empty rest
label_of_suffix(s) == IF strip_lead(s) = <<>> THEN <<"U", "n", "k", "n", "o", "w", "n">> ELSE Title(strip_lead(s))

\* C9 (amended): the piping-material list of a block is one label per truthy column whose
\* name starts with 'pipe material', in column order; the label is the suffix of the
\* column name without leading blanks and punctuation, title-cased, or 'Unknown' when
\* nothing is left of the suffix; falsy columns contribute nothing.
C9_MaterialLabels == \A i \in 1..Len(out.blocks) : pipe_rows_of(out.blocks[i]) # <<>>
                       => out.blocks[i].materials_detected = material_labels(pipe_rows_of(out.blocks[i])[1], label_of_suffix)

\* C9's case: a block whose pipe row has a truthy and a falsy 'pipe material' column, the
\* truthy one with punctuation before its name
C9_Witness == /\ summarised
              /\ \E i \in 1..Len(out.blocks) : /\ pipe_rows_of(out.blocks[i]) # <<>>
                                               /\ out.blocks[i].materials_detected = <<<<"C", "u">>>>
                                               /\ \E k \in 1..Len(ustpipe.cols) : StartsWith(ustpipe.cols[k], <<"p", "i", "p", "e", " ", "m", "a", "t", "e", "r", "i", "a", "l">>) /\ ~truthy(ustpipe.rows[pipe_rows_of(out.blocks[i])[1]][k])

\* no column of the first of the rows starts with the prefix and is truthy (or no row)
no_truthy_flag(df, rows, prefix) == rows = <<>> \/ truthy_flags(df, rows[1], prefix) = <<>>

\* the release-detection lists of a block are empty and rendered 'Not Listed' when
\* no column with their prefix is truthy
rd_not_listed(b) == /\ no_truthy_flag(ustpipe_release, release_rows_of(b), <<"t", "a", "n", "k", " ", "r", "d", " ">>) => (b.tank_rd_methods = <<>> /\ b.tank_rd_method_str = <<"N", "o", "t", " ", "L", "i", "s", "t", "e", "d">>)
                    /\ no_truthy_flag(ustpipe_release, release_rows_of(b), <<"p", "i", "p", "e", " ", "r", "d", " ">>) => (b.pipe_rd_methods = <<>> /\ b.pipe_rd_method_str = <<"N", "o", "t", " ", "L", "i", "s", "t", "e", "d">>)

\* C10 as claimed: each of the three flag lists of a block is empty when no column with
\* its prefix is truthy, and its field is then rendered 'Not Listed'.
C10_AllNotListed == \A i \in 1..Len(out.blocks) : /\ rd_not_listed(out.blocks[i])
                                                  /\ no_truthy_flag(ustpipe, pipe_rows_of(out.blocks[i]), <<"p", "i", "p", "e", " ", "m", "a", "t", "e", "r", "i", "a", "l">>) => (out.blocks[i].materials_detected = <<>> /\ out.blocks[i].pipe_material = <<"N", "o", "t", " ", "L", "i", "s", "t", "e", "d">>)

\* the text of the cell of row r in the column named c, without the blanks around it
cell_text(df, r, c) == Strip(PyStr(Cell(df, r, c)))

\* the legacy value of the piping field of pipe row r: a fiberglass column that says
\* y, yes or fiberglass, or any cell that says fiberglass, gives 'Fiberglass (Double
\* Wall)'; else the first non-blank cell of 'piping material', 'pipe material',
\* 'pipe materials'; else 'Unknown'
legacy_material(r) == IF \/ \E k \in 1..Len(ustpipe.cols) : Contains(ustpipe.cols[k], <<"f", "i", "b", "e", "r", "g", "l", "a", "s", "s">>) /\ Lower(Strip(PyStr(ustpipe.rows[r][k]))) \in {<<"y">>, <<"y", "e", "s">>}
                         \/ \E k \in 1..Len(ustpipe.cols) : Lower(Strip(PyStr(ustpipe.rows[r][k]))) = <<"f", "i", "b", "e", "r", "g", "l", "a", "s", "s">>
                      THEN <<"F", "i", "b", "e", "r", "g", "l", "a", "s", "s", " ", "(", "D", "o", "u", "b", "l", "e", " ", "W", "a", "l", "l", ")">>
                      ELSE IF HasCol(ustpipe, <<"p", "i", "p", "i", "n", "g", " ", "m", "a", "t", "e", "r", "i", "a", "l">>) /\ cell_text(ustpipe, r, <<"p", "i", "p", "i", "n", "g", " ", "m", "a", "t", "e", "r", "i", "a", "l">>) # <<>> THEN cell_text(ustpipe, r, <<"p", "i", "p", "i", "n", "g", " ", "m", "a", "t", "e", "r", "i", "a", "l">>)
                      ELSE IF HasCol(ustpipe, <<"p", "i", "p", "e", " ", "m", "a", "t", "e", "r", "i", "a", "l">>) /\ cell_text(ustpipe, r, <<"p", "i", "p", "e", " ", "m", "a", "t", "e", "r", "i", "a", "l">>) # <<>> THEN cell_text(ustpipe, r, <<"p", "i", "p", "e", " ", "m", "a", "t", "e", "r", "i", "a", "l">>)
                      ELSE IF HasCol(ustpipe, <<"p", "i", "p", "e", " ", "m", "a", "t", "e", "r", "i", "a", "l", "s">>) /\ cell_text(ustpipe, r, <<"p", "i", "p", "e", " ", "m", "a", "t", "e", "r", "i", "a", "l", "s">>) # <<>> THEN cell_text(ustpipe, r, <<"p", "i", "p", "e", " ", "m", "a", "t", "e", "r", "i", "a", "l", "s">>)
                      ELSE <<"U", "n", "k", "n", "o", "w", "n">>

\* C10 (amended): each of the three flag lists of a block is empty when no column with
\* its prefix is truthy; the two release-detection fields are then rendered 'Not
\* Listed', and the piping-material field is rendered 'Unknown' when the tank has no
\* pipe row and else as the legacy value of the pipe row, which is 'Unknown' when no
\* legacy rule applies.
C10_EmptyListsRendered == \A i \in 1..Len(out.blocks) : /\ rd_not_listed(out.blocks[i])
                                                        /\ no_truthy_flag(ustpipe, pipe_rows_of(out.blocks[i]), <<"p", "i", "p", "e", " ", "m", "a", "t", "e", "r", "i", "a", "l">>)
                                                             => /\ out.blocks[i].materials_detected = <<>>
                                                                /\ out.blocks[i].pipe_material = (IF pipe_rows_of(out.blocks[i]) = <<>> THEN <<"U", "n", "k", "n", "o", "w", "n">> ELSE legacy_material(pipe_rows_of(out.blocks[i])[1]))

\* C10's case: a block whose pipe row has 'pipe material' columns and whose release row
\* has a 'pipe rd ' column, none of them truthy: piping 'Unknown', pipe RD 'Not Listed'
C10_Witness == /\ summarised
               /\ \E i \in 1..Len(out.blocks) : /\ pipe_rows_of(out.blocks[i]) # <<>> /\ release_rows_of(out.blocks[i]) # <<>>
                                                /\ \E k \in 1..Len(ustpipe.cols) : StartsWith(ustpipe.cols[k], <<"p", "i", "p", "e", " ", "m", "a", "t", "e", "r", "i", "a", "l">>)
                                                /\ \E k \in 1..Len(ustpipe_release.cols) : StartsWith(ustpipe_release.cols[k], <<"p", "i", "p", "e", " ", "r", "d", " ">>)
                                                /\ no_truthy_flag(ustpipe, pipe_rows_of(out.blocks[i]), <<"p", "i", "p", "e", " ", "m", "a", "t", "e", "r", "i", "a", "l">>)
                                                /\ out.blocks[i].pipe_material = <<"U", "n", "k", "n", "o", "w", "n">>
                                                /\ out.blocks[i].pipe_rd_method_str = <<"N", "o", "t", " ", "L", "i", "s", "t", "e", "d">>


\* the digit run of a tank number: the digits of its text, in order
digit_run(v) == SelectSeq(PyStr(v), IsDigit)

\* the rows among those joined to the facility whose tank number has the digit run of
\* the tank number of Tanks row r (none when the table has no tank number)
same_tank_rows(df, rows, r) == SelectSeq(rows, LAMBDA k : HasCol(df, col.tank_number) /\ digit_run(Cell(df, k, col.tank_number)) = digit_run(Cell(tanks, r, col.tank_number)))

\* C11: the tank-materials, pipe and release rows considered for an active tank are
\* exactly the rows joined to the facility whose tank number has the same digit run as
\* the tank's, so 'R1', '1M' and '1' are the same tank.
C11_SameDigitRunJoined == \A i \in 1..Len(out.blocks) :
                            /\ out.blocks[i].material_rows = same_tank_rows(usttankmaterials, tank_materials_filtered, out.blocks[i].row)
                            /\ out.blocks[i].pipe_rows = same_tank_rows(ustpipe, pipe_filtered, out.blocks[i].row)
                            /\ out.blocks[i].release_rows = same_tank_rows(ustpipe_release, release_filtered, out.blocks[i].row)

\* C11's case: the tank 'R1' was given the two pipe rows 'R1' and '1M', and another
\* tank of the facility no pipe row
C11_Witness == /\ summarised
               /\ \E i \in 1..Len(out.blocks) : /\ Cell(tanks, out.blocks[i].row, col.tank_number) = StrV(<<"R", "1">>)
                                                /\ Len(out.blocks[i].pipe_rows) = 2
                                                /\ Cell(ustpipe, out.blocks[i].pipe_rows[2], col.tank_number) = StrV(<<"1", "M">>)
               /\ \E i \in 1..Len(out.blocks) : out.blocks[i].pipe_rows = <<>>

\* the facility columns were detected: the run passed the gate and no table was empty
detected == pc # "start" /\ out.info \notin {"upload", "skipped"}

\* what the resolver returns for each table as the table is now
find_again == [tanks |-> find_facility_column(tanks), owner |-> find_facility_column(owner), pipe |-> IF df_empty(ustpipe) THEN None ELSE find_facility_column(ustpipe), materials |-> find_facility_column(usttankmaterials), release |-> find_facility_column(ustpipe_release), site |-> IF df_empty(siteinfo) THEN None ELSE find_facility_column(siteinfo)]

\* the tables as loading leaves them
as_loaded == [tanks |-> read_csv_safe(files.tanks), owner |-> read_csv_safe(files.owner), ustpipe |-> ustpipe_loaded(files.pipe, debug_mode), usttankmaterials |-> read_csv_safe(files.materials), ustpipe_release |-> read_csv_safe(files.release), siteinfo |-> read_csv_safe(files.siteinfo)]

C13_TablesNeverMutated == detected => /\ tanks = as_loaded.tanks /\ owner = as_loaded.owner /\ ustpipe = as_loaded.ustpipe
                                      /\ usttankmaterials = as_loaded.usttankmaterials /\ ustpipe_release = as_loaded.ustpipe_release /\ siteinfo = as_loaded.siteinfo

\* one of owner.csv, usttankmaterials.csv and usttankpipereleasedetection.csv is
\* missing, or holds no row
detail_down == \E k \in {"owner", "materials", "release"} : df_empty(read_csv_safe(files[k]))

\* C14: with a query and a loaded Tanks table, a missing or empty owner, tank-materials
\* or release table does not stop the run: the query is resolved, to the facility
\* summary or to 'no facility found'.
C14_DetailTableDown == (facility_input # <<>> /\ ~df_empty(read_csv_safe(files.tanks)) /\ detail_down /\ pc = "done")
                         => out.info \in {"summary", "not found"}

\* C15: when the resolver returned None for a table, Tanks included, the run does not
\* raise.
C15_NoneNeverRaises == (detected /\ \E k \in DOMAIN facility_col : facility_col[k] = None) => pc # "raised"

\* C16: Debug Mode is a pure side channel: with it on, the pipe sheet is never treated
\* as empty when it loads with rows, and the run never fails where it would not with the
\* mode off (the only failure of such a run is the missing Tanks facility column).
C16_DebugSideChannel == (debug_mode /\ detected) => /\ df_empty(ustpipe) = df_empty(load_ustpipe(files.pipe))
                                                   /\ (pc = "raised" => facility_col.tanks = None)

\* 'no facility found' is reported when and only when a search that ran ended without a
\* Tanks row, and never next to a facility summary
not_found_exact == /\ out.info = "not found" => (tanks_filtered = <<>> /\ out.summary = <<>>)
                   /\ (detected /\ pc = "done" /\ tanks_filtered = <<>>) => out.info = "not found"

\* a query was made: a search term and the five uploads, with a Tanks table that has rows
query_made == facility_input # <<>> /\ (\A k \in {"tanks", "owner", "pipe", "materials", "release"} : files[k].present) /\ ~df_empty(read_csv_safe(files.tanks))

\* C17: 'no facility found' is reported exactly when resolution ends with no Tanks row
\* selected, never together with a facility summary, and a query that ends without
\* raising reports exactly one of the two.
C17_NotFoundOrSummary == /\ not_found_exact
                         /\ (query_made /\ pc = "done") => out.info \in {"not found", "summary"}

\* C18: every Tanks row of the resolved facility whose status is 'CURR IN USE' in any
\* letter case ('curr in use', 'Curr In Use') is an active tank and gets a block.
C18_StatusIgnoringCase == summarised => \A j \in 1..Len(tanks_filtered) : (HasCol(tanks, col.tank_status) /\ Upper(PyStr(Cell(tanks, tanks_filtered[j], col.tank_status))) = txt.CURR_IN_USE)
                                                                            => \E i \in 1..Len(out.blocks) : out.blocks[i].row = tanks_filtered[j]

\* C19: one truthy test decides every flag column: in each block, the piping-material
\* list and the two release-detection lists have one label for each column of the joined
\* row that starts with the list's prefix and holds one of y, yes, true, t, 1, x.
C19_SameTruthyTest == \A i \in 1..Len(out.blocks) :
                        /\ pipe_rows_of(out.blocks[i]) # <<>> => Len(out.blocks[i].materials_detected) = Len(truthy_flags(ustpipe, pipe_rows_of(out.blocks[i])[1], <<"p", "i", "p", "e", " ", "m", "a", "t", "e", "r", "i", "a", "l">>))
                        /\ release_rows_of(out.blocks[i]) # <<>> => /\ Len(out.blocks[i].tank_rd_methods) = Len(truthy_flags(ustpipe_release, release_rows_of(out.blocks[i])[1], <<"t", "a", "n", "k", " ", "r", "d", " ">>))
                                                                    /\ Len(out.blocks[i].pipe_rd_methods) = Len(truthy_flags(ustpipe_release, release_rows_of(out.blocks[i])[1], <<"p", "i", "p", "e", " ", "r", "d", " ">>))

\* the part of C19 about the piping materials alone
C19_PipeMaterialPart == \A i \in 1..Len(out.blocks) : pipe_rows_of(out.blocks[i]) # <<>> => Len(out.blocks[i].materials_detected) = Len(truthy_flags(ustpipe, pipe_rows_of(out.blocks[i])[1], <<"p", "i", "p", "e", " ", "m", "a", "t", "e", "r", "i", "a", "l">>))

\* the rows among those given whose pipe status is exactly 'CURR IN USE'
pipe_in_use(rows) == SelectSeq(rows, LAMBDA r : HasCol(ustpipe, col.tank_status) /\ Cell(ustpipe, r, col.tank_status) = CIU)

\* C20: once the pipe join has a facility-scoped row set, the final pipe rows are its
\* rows with status 'CURR IN USE' when there is one and the whole set otherwise; so a
\* non-empty facility-scoped set never ends as an empty final set.
C20_StatusNeverEmpties == (joined /\ ~base_filtered.none)
                            => /\ pipe_filtered = (IF pipe_in_use(base_filtered.rows) # <<>> THEN pipe_in_use(base_filtered.rows) ELSE base_filtered.rows)
                               /\ base_filtered.rows # <<>> => pipe_filtered # <<>>

\* C20's case: the facility has two pipe rows with a status, neither in use, and both
\* are kept
C20_Witness == /\ summarised /\ ~base_filtered.none /\ HasCol(ustpipe, col.tank_status)
               /\ Len(base_filtered.rows) = 2 /\ pipe_in_use(base_filtered.rows) = <<>>
               /\ pipe_filtered = base_filtered.rows

\* the other case of C20: of two pipe rows of the facility only the one in use is kept
C20_WitnessInUse == /\ summarised /\ ~base_filtered.none
                    /\ Len(base_filtered.rows) = 2 /\ Len(pipe_filtered) = 1

\* a column name is accepted by stage 2 (one of the regexes matches the lowercased,
\* trimmed name) or by stage 3 (the name holds 'facility' or 'fac', and 'id')
stage_accepts(st, c) == IF st = 2 THEN \E i \in 1..Len(regexes) : regex_match(regexes[i], Strip(Lower(c)))
                        ELSE /\ \E k \in 1..(Len(c) - 2) : SubSeq(Lower(c), k, k + 2) = <<"f", "a", "c">>
                             /\ \E k \in 1..(Len(c) - 1) : SubSeq(Lower(c), k, k + 1) = <<"i", "d">>

\* the first of the names, in the order of the list, that is a column of df
first_alias(names, df, c) == \E i \in 1..Len(names) : c = names[i] /\ HasCol(df, c) /\ \A j \in 1..(i - 1) : ~HasCol(df, names[j])

\* c is the first column of df, in column order, that stage st accepts (2: a regex over
\* the separator variants, 3: 'facility' or 'fac' together with 'id')
first_column(st, df, c) == \E i \in 1..Len(df.cols) : c = df.cols[i] /\ stage_accepts(st, df.cols[i]) /\ \A j \in 1..(i - 1) : ~stage_accepts(st, df.cols[j])

\* the highest-priority stage that matches a column of df, 0 when none does
stage_of(df) == IF \E i \in 1..Len(facility_patterns) : HasCol(df, facility_patterns[i]) THEN 1
                ELSE IF \E i \in 1..Len(df.cols) : stage_accepts(2, df.cols[i]) THEN 2
                ELSE IF \E i \in 1..Len(df.cols) : stage_accepts(3, df.cols[i]) THEN 3
                ELSE IF \E i \in 1..Len(owner_patterns) : HasCol(df, owner_patterns[i]) THEN 4
                ELSE IF \E i \in 1..Len(site_patterns) : HasCol(df, site_patterns[i]) THEN 5
                ELSE 0

\* c is what the highest-priority matching stage of df gives, None when no stage matches
by_priority(df, c) == CASE stage_of(df) = 1 -> first_alias(facility_patterns, df, c)
                        [] stage_of(df) = 2 -> first_column(2, df, c)
                        [] stage_of(df) = 3 -> first_column(3, df, c)
                        [] stage_of(df) = 4 -> first_alias(owner_patterns, df, c)
                        [] stage_of(df) = 5 -> first_alias(site_patterns, df, c)
                        [] OTHER -> c = None

\* C21: the facility-id column detected for each table is the match of the highest-
\* priority stage that matches any of its columns (exact alias, regex, substring rule,
\* owner-id alias, site-id alias), and None when no stage matches.
C21_HighestStageWins == (detected /\ pc \in {"resolve", "raised"})
                          => /\ by_priority(tanks, facility_col.tanks)
                             /\ by_priority(owner, facility_col.owner)
                             /\ by_priority(usttankmaterials, facility_col.materials)
                             /\ by_priority(ustpipe_release, facility_col.release)
                             /\ (~df_empty(ustpipe) => by_priority(ustpipe, facility_col.pipe))
                             /\ (~df_empty(siteinfo) => by_priority(siteinfo, facility_col.site))

\* C21's case: the first column of the pipe sheet is matched by the substring rule only,
\* a later one by a regex, and the later one is the column detected
C21_Witness == /\ detected /\ pc = "resolve"
               /\ ustpipe.cols # <<>> /\ stage_accepts(3, ustpipe.cols[1]) /\ ~stage_accepts(2, ustpipe.cols[1])
               /\ facility_col.pipe = <<"f", "a", "c", "-", "n", "o">>

\* the other stages of C21: the owner-id alias is detected although a site-id column
\* comes first, and nothing is detected for a table without any such column
C21_WitnessFallback == /\ detected /\ pc = "resolve"
                       /\ facility_col.owner = <<"o", "w", "n", "e", "r", " ", "i", "d">> /\ HasCol(owner, <<"s", "i", "t", "e", " ", "i", "d">>)

\* text is the decimal numeral of n with a comma before every group of three digits
\* counted from the right, and nowhere else
grouped_numeral(text, n) == /\ SelectSeq(text, LAMBDA ch : ch # ",") = DecNat(n)
                            /\ \A p \in 1..Len(text) : (text[Len(text) + 1 - p] = ",") <=> (p % 4 = 0)

\* the capacity cell of the Tanks row of a block
capacity_cell(b) == Cell(tanks, b.row, col.capacity)

\* C22: the capacity of every block is the integer part of the cell with thousands
\* grouping when the cell is a number or the text of one, and the cell's own text
\* unchanged when it is not a number.
C22_CapacityFormatted == \A i \in 1..Len(out.blocks) : HasCol(tanks, col.capacity) =>
                           CASE capacity_cell(out.blocks[i]).t \in {"int", "float"} -> grouped_numeral(out.blocks[i].capacity, capacity_cell(out.blocks[i]).n)
                             [] capacity_cell(out.blocks[i]).t = "str" /\ AllDigits(capacity_cell(out.blocks[i]).s) -> grouped_numeral(out.blocks[i].capacity, NatOf(capacity_cell(out.blocks[i]).s))
                             [] capacity_cell(out.blocks[i]).t = "str" /\ (\E k \in 1..Len(capacity_cell(out.blocks[i]).s) : IsLetter(capacity_cell(out.blocks[i]).s[k]) \/ capacity_cell(out.blocks[i]).s[k] = ",") -> out.blocks[i].capacity = capacity_cell(out.blocks[i]).s
                             [] OTHER -> out.blocks[i].capacity = PyStr(capacity_cell(out.blocks[i]))

\* C22's case: the run rendered two blocks, one whose capacity cell is the text '12000',
\* shown as '12,000', and one whose cell is the text 'unknown', shown as it is
C22_Witness == /\ summarised /\ Len(out.blocks) = 2
               /\ capacity_cell(out.blocks[1]) = StrV(<<"1", "2", "0", "0", "0">>) /\ out.blocks[1].capacity = <<"1", "2", ",", "0", "0", "0">>
               /\ capacity_cell(out.blocks[2]) = StrV(<<"u", "n", "k", "n", "o", "w", "n">>) /\ out.blocks[2].capacity = <<"u", "n", "k", "n", "o", "w", "n">>

\* more of C22: a float capacity shows its integer part in groups, '1,500' stays as it is
C22_WitnessFloat == /\ summarised /\ \E i \in 1..Len(out.blocks) : capacity_cell(out.blocks[i]) = FloatV(1234567, 5) /\ out.blocks[i].capacity = <<"1", ",", "2", "3", "4", ",", "5", "6", "7">>

\* and a capacity text with a comma in it is no number: it is shown unchanged
C22_WitnessText == /\ summarised /\ \E i \in 1..Len(out.blocks) : capacity_cell(out.blocks[i]) = StrV(<<"1", ",", "5", "0", "0">>) /\ out.blocks[i].capacity = <<"1", ",", "5", "0", "0">>

\* row k of a detail table has the raw tank number of row r of Tanks
raw_match(df, k, r) == HasCol(df, col.tank_number) /\ HasCol(tanks, col.tank_number) /\ PyStr(Cell(df, k, col.tank_number)) = PyStr(Cell(tanks, r, col.tank_number))

\* the row used for a tank, the first of rows, has the tank's raw number when one of rows has
raw_preferred(df, rows, r) == (\E j \in 1..Len(rows) : raw_match(df, rows[j], r)) => raw_match(df, rows[1], r)

\* C23: of the joined rows of a detail table that share a tank's digits-only number, the
\* row used for the tank is one with the tank's raw tank number whenever there is one
\* (the first preference of the claimed chain).
C23_RawNumberPreferred == \A i \in 1..Len(out.blocks) : /\ raw_preferred(usttankmaterials, out.blocks[i].material_rows, out.blocks[i].row)
                                                        /\ raw_preferred(ustpipe, out.blocks[i].pipe_rows, out.blocks[i].row)
                                                        /\ raw_preferred(ustpipe_release, out.blocks[i].release_rows, out.blocks[i].row)

\* the double-wall column of the tank-materials table that has one of the three names
named_double_wall == CHOOSE c \in {<<"t", "a", "n", "k", " ", "m", "a", "t", "e", "r", "i", "a", "l", " ", "d", "o", "u", "b", "l", "e", " ", "w", "a", "l", "l", "e", "d">>, <<"d", "o", "u", "b", "l", "e", " ", "w", "a", "l", "l", "e", "d">>, <<"d", "o", "u", "b", "l", "e", " ", "w", "a", "l", "l">>} : HasCol(usttankmaterials, c)

\* C24: when the tank-materials table has a column named 'tank material double walled',
\* 'double walled' or 'double wall', the double-wall flag of a tank is read from that
\* column of its materials row, wherever the column sits.
C24_NamedDoubleWall == \A i \in 1..Len(out.blocks) :
                         (out.blocks[i].material_rows # <<>> /\ \E c \in {<<"t", "a", "n", "k", " ", "m", "a", "t", "e", "r", "i", "a", "l", " ", "d", "o", "u", "b", "l", "e", " ", "w", "a", "l", "l", "e", "d">>, <<"d", "o", "u", "b", "l", "e", " ", "w", "a", "l", "l", "e", "d">>, <<"d", "o", "u", "b", "l", "e", " ", "w", "a", "l", "l">>} : HasCol(usttankmaterials, c))
                           => (out.blocks[i].double_wall = <<"Y", "e", "s">> <=> Upper(Strip(PyStr(Cell(usttankmaterials, out.blocks[i].material_rows[1], named_double_wall)))) = <<"Y">>)

\* where the flag is read from when there is no named column: the twelfth column
C24_PositionalPart == \A i \in 1..Len(out.blocks) :
                        (out.blocks[i].material_rows # <<>> /\ Len(usttankmaterials.cols) > 11 /\ ~\E c \in {<<"t", "a", "n", "k", " ", "m", "a", "t", "e", "r", "i", "a", "l", " ", "d", "o", "u", "b", "l", "e", " ", "w", "a", "l", "l", "e", "d">>, <<"d", "o", "u", "b", "l", "e", " ", "w", "a", "l", "l", "e", "d">>, <<"d", "o", "u", "b", "l", "e", " ", "w", "a", "l", "l">>} : HasCol(usttankmaterials, c))
                          => (out.blocks[i].double_wall = <<"Y", "e", "s">> <=> Upper(Strip(PyStr(usttankmaterials.rows[out.blocks[i].material_rows[1]][12]))) = <<"Y">>)

\* the owner id of the resolved facility: that of the last of its joined Owners rows
owner_id_of_facility == Cell(owner, owner_filtered[Len(owner_filtered)], col.owner_id)

\* C25: when the pipe sheet is joined through its owner-id column, every pipe row joined
\* to the facility has the owner id of the facility's joined Owners row; none is joined
\* because its owner id equals the facility id.
C25_OwnerIdNotFacilityId == (joined /\ ~df_empty(ustpipe) /\ facility_col.pipe = col.owner_id /\ ~HasCol(ustpipe, col.facility_id))
                              => \A j \in 1..Len(pipe_filtered) : /\ owner_filtered # <<>> /\ HasCol(owner, col.owner_id)
                                                                  /\ digits_only(Cell(ustpipe, pipe_filtered[j], col.owner_id)) = digits_only(owner_id_of_facility)

\* the owner-id stage proper: when no row has the facility id as its owner id, the rows
\* joined are those of the facility's owner
C25_OwnerStagePart == (joined /\ ~df_empty(ustpipe) /\ facility_col.pipe = col.owner_id /\ ~HasCol(ustpipe, col.facility_id) /\ owner_filtered # <<>>
                         /\ \A r \in 1..Len(ustpipe.rows) : digits_only(Cell(ustpipe, r, col.owner_id)) # digits_only(facility_id))
                        => pipe_filtered = SelectSeq(RowIdx(ustpipe), LAMBDA r : digits_only(Cell(ustpipe, r, col.owner_id)) = digits_only(owner_id_of_facility))

\* q is in text as it is written, letter case aside
literally_in(q, text) == \E i \in 0..(Len(text) - Len(q)) : \A j \in 1..Len(q) : LowerChar(q[j]) = LowerChar(text[i + j])

\* C26 (first part): the Tanks rows the facility-name search selects are the rows whose
\* facility name holds the query as it is written, ignoring letter case
C26_LiteralRowsOnly == (pc \in {"resolved", "select"} /\ path = {"name"} /\ HasCol(tanks, col.facility_name)) => \A k \in 1..Len(tanks_filtered) : literally_in(facility_input, PyStr(Cell(tanks, tanks_filtered[k], col.facility_name)))

\* C26 (second part): a query that is no integer never makes the search raise
C26_SearchNeverRaises == (pc = "raised" /\ facility_col.tanks # None) => (PyIntOk(StrV(facility_input)) \/ debug_mode)

\* C26: the text search is a plain case-insensitive substring test: no query matches a
\* row that does not hold it literally, and no query makes the search raise
C26_PlainSubstring == C26_LiteralRowsOnly /\ C26_SearchNeverRaises

\* C27: the Tanks row behind every block has the facility id the summary shows, also
\* when the facility-name search selected Tanks rows of several facilities
C27_BlocksOfSummaryFacility == (out.summary # <<>> /\ HasCol(tanks, facility_col.tanks)) => \A i \in 1..Len(out.blocks) : PyStr(Cell(tanks, out.blocks[i].row, facility_col.tanks)) = out.summary[1].facility_id

\* C27 for the other ways of resolution: an id query, a single Owners or SiteInfo match
\* and a chosen candidate select the Tanks rows of one facility
C27_OneFacilityPart == (out.summary # <<>> /\ HasCol(tanks, facility_col.tanks) /\ path # {"name"}) => \A i \in 1..Len(out.blocks) : PyStr(Cell(tanks, out.blocks[i].row, facility_col.tanks)) = out.summary[1].facility_id

\* the values of vs in order of first appearance, missing values left out
first_seen(vs) == LET keep == SelectSeq([i \in 1..Len(vs) |-> i], LAMBDA i : ~IsNa(vs[i]) /\ \A j \in 1..(i - 1) : ~PyEq(vs[j], vs[i]))
                  IN [k \in 1..Len(keep) |-> vs[keep[k]]]

\* a search contributes candidates when it discovers two facility ids or more
several(vs) == IF Len(first_seen(vs)) >= 2 THEN first_seen(vs) ELSE <<>>

\* the candidates in order of discovery: those of the Owners rows the query matches,
\* then those of the SiteInfo rows it matches
discovered == LET orows == owner_matches(facility_input, owner)
                  srows == site_matches(facility_input, siteinfo)
                  o == IF ~df_empty(owner) /\ HasCol(owner, facility_col.owner) THEN several(ColOf(owner, orows, facility_col.owner)) ELSE <<>>
                  s == IF site_search_due(<<>>, tanks, siteinfo, facility_col) /\ HasCol(siteinfo, facility_col.site) THEN several(ColOf(siteinfo, srows, facility_col.site)) ELSE <<>>
              IN first_seen(o \o s)

C28_WitnessOrder == out.labels # <<>> /\ Len(discovered) = 3 /\ out.chosen = 3 /\ tanks_filtered # <<>>

\* C28 is met where two candidates carry the same label
C28_WitnessSameLabel == out.labels # <<>> /\ \E i, j \in 1..Len(out.labels) : i # j /\ out.labels[i] = out.labels[j]

\* C29 (first part): every candidate offered as a choice has a row in Tanks
C29_CandidatesHaveTanks == out.labels # <<>> => \A k \in 1..Len(discovered) : rows_equal(tanks, facility_col.tanks, discovered[k]) # <<>>

\* C29 (second part): a query the Owners or SiteInfo search matched to a facility id
\* does not end in 'no facility found'
C29_MatchNeverNotFound == (out.info = "not found" /\ "owner" \in path) => /\ matched_fids(facility_input, tanks, owner, facility_col) = <<>>
                                                                          /\ "site" \in path => site_fids(facility_input, siteinfo, facility_col) = <<>>

\* C29: every facility id the Owners or SiteInfo search accepts leads to a summary: an
\* id without a Tanks row is never offered and never ends in 'no facility found'
C29_AcceptedIdsHaveSummary == C29_CandidatesHaveTanks /\ C29_MatchNeverNotFound
====
